---- MODULE Spec2Model ----
(***************************************************************************)
(* A model of the retrieval-and-validation pipeline of agadah-bot-simple:  *)
(* the content fetcher tool, the WordPress search tool, the URL validator  *)
(* of StoryReference and the run logger.                                    *)
(*                                                                         *)
(* Strings.  A URL is a sequence of chunks, each chunk a fixed piece of    *)
(* text ("https:", "/", "agadah", ".", "org.il", "%2E", ...).  The chunks  *)
(* are chosen so that one Python string contains another exactly when the  *)
(* chunk sequence of the first contains the chunk sequence of the second.  *)
(* A page text is a sequence of tokens [t, n]: a word of n characters, a   *)
(* space, a newline, a link prefix, a navigation phrase.                   *)
(***************************************************************************)
EXTENDS Integers, Sequences, FiniteSets, TLC

VARIABLES
    \* ---- AgadahContentFetcherTool._run ----
    fPc,          \* "idle" | "attempt" | "process" | "done"
    fRaw,         \* the argument url as given
    fUrl,         \* the local variable url (after line 58 once past it)
    fAttempt,     \* loop variable attempt of range(max_retries)
    fRetryDelay,  \* local retry_delay
    fNet,         \* the GET requests issued by this call, with their outcomes
    fSleeps,      \* the arguments of the time.sleep calls of this call
    fResponse,    \* the parsed document of the successful response
    fResult,      \* what the call returned
    \* ---- AgadahWordPressSearchTool._run ----
    sPc,          \* "idle" | "attempt" | "parse" | "items" | "done"
    sLimit,       \* the clamped limit
    sAttempt,     \* loop variable attempt of _perform_request
    sRetryDelay,  \* local retry_delay of _perform_request
    sNet,         \* the GET requests to the index issued by this call
    sSleeps,      \* the arguments of the time.sleep calls of this call
    sBody,        \* the body of the successful index response
    sIdx,         \* position of the for loop over results
    sItemLog,     \* per raw result: what validation did with it
    sFormatted,   \* formatted_results
    sResult,      \* what the call returned
    \* ---- StoryReference.validate_url ----
    vUrl,         \* the last URL given to the validator
    vResult,      \* "none" | "accepted" | "ValueError"
    \* ---- run_logger / RunLogger ----
    current,      \* the global _current_logger: a run id or 0 for None
    runs,         \* per run: position in run_logger and its RunLogger
    clock,        \* datetime.now()
    \* ---- GameDatabaseSearchTool ----
    gPc,          \* "new" | "idle" | "done"
    gData,        \* _games_data
    gQuery,       \* the argument query as given
    gResult,      \* what _run returned
    \* ---- extract_json_from_text ----
    xPc,          \* "idle" | "done"
    xText,        \* the argument text
    xResult,      \* what the call returned
    \* ---- a RunLogger used on its own ----
    rec,          \* its run_data, the JSON file it wrote, the calls made on it
    \* ---- _clean_text called on its own ----
    cPc,          \* "idle" | "done"
    cText,        \* the argument text
    cOut,         \* what the call returned
    \* ---- ActivityReport(...) ----
    pReport,      \* the data last given to ActivityReport
    pOutcome,     \* "none" | "accepted" | "ValidationError"
    pWarned,      \* model_post_init logged its warning
    \* ---- ActivityDetails(...) ----
    dValues,      \* the main_values last given
    dOutcome,     \* "none" | "accepted" | "ValidationError"
    dStored,      \* main_values of the accepted ActivityDetails
    \* ---- _clean_html called on its own ----
    hPc,          \* "idle" | "done"
    hRaw,         \* the argument html_text
    hOut          \* what the call returned

fetchVars == <<fPc, fRaw, fUrl, fAttempt, fRetryDelay, fNet, fSleeps, fResponse, fResult>>
searchVars == <<sPc, sLimit, sAttempt, sRetryDelay, sNet, sSleeps, sBody, sIdx,
                sItemLog, sFormatted, sResult>>
validatorVars == <<vUrl, vResult>>
loggerVars == <<current, runs, clock>>
gameVars == <<gPc, gData, gQuery, gResult>>
toolVars == <<fetchVars, searchVars, validatorVars>>
jsonVars == <<xPc, xText, xResult>>
recorderVars == <<rec>>
cleanVars == <<cPc, cText, cOut>>
reportVars == <<pReport, pOutcome, pWarned>>
moreVars == <<recorderVars, cleanVars, reportVars>>
detailsVars == <<dValues, dOutcome, dStored>>
htmlVars == <<hPc, hRaw, hOut>>
lastVars == <<detailsVars, htmlVars>>
restVars == <<gameVars, jsonVars, moreVars, lastVars>>
vars == <<toolVars, loggerVars, restVars>>

(***************************************************************************)
(* Python string operations on chunk sequences.                            *)
(***************************************************************************)

\* s.startswith(p)
StartsWith(s, p) ==
    /\ Len(s) >= Len(p)
    /\ SubSeq(s, 1, Len(p)) = p

\* p in s
Contains(s, p) ==
    \E i \in 0..(Len(s) - Len(p)) : SubSeq(s, i + 1, i + Len(p)) = p

\* s.strip(): whitespace is removed at both ends
RECURSIVE LStrip(_)
LStrip(s) ==
    IF s # <<>> /\ Head(s) = " " THEN LStrip(Tail(s)) ELSE s

RECURSIVE RStripChunk(_, _)
RStripChunk(s, c) ==
    IF s # <<>> /\ s[Len(s)] = c THEN RStripChunk(SubSeq(s, 1, Len(s) - 1), c) ELSE s

Strip(s) == RStripChunk(LStrip(s), " ")

\* urllib.parse.unquote: every percent escape is replaced by its character
UnquoteChunk(c) ==
    CASE c = "%2E" -> "."
      [] c = "%2F" -> "/"
      [] OTHER -> c

Unquote(s) == [i \in 1..Len(s) |-> UnquoteChunk(s[i])]

\* s.lower()
LowerChunk(c) ==
    CASE c = "Category" -> "category"
      [] c = "HTTPS:" -> "https:"
      [] c = "A" -> "a"
      [] OTHER -> c

Lower(s) == [i \in 1..Len(s) |-> LowerChunk(s[i])]

\* "agadah.org.il"
TrustedDomain == <<"agadah", ".", "org.il">>

HttpPrefix == <<"http:", "/", "/">>
HttpsPrefix == <<"https:", "/", "/">>

(***************************************************************************)
(* Page texts: sequences of tokens.                                        *)
(***************************************************************************)

Sp == [t |-> "sp", n |-> 1]
Nl == [t |-> "nl", n |-> 1]
\* a tab: whitespace that is neither a space nor a newline
Tab == [t |-> "tab", n |-> 1]
W(n) == [t |-> "w", n |-> n]
Kw(k) == [t |-> "kw", n |-> k]
\* "http://", "https://" and an upper-case "HTTP://"
LinkHttp == [t |-> "http://", n |-> 7]
LinkHttps == [t |-> "https://", n |-> 8]
LinkUpper == [t |-> "HTTP://", n |-> 7]

\* strong_nav_keywords, by position in the list, and the length of each phrase
StrongNavKeywords == 1..8

KeywordLen(k) ==
    CASE k = 1 -> 11
      [] k = 2 -> 10
      [] k = 3 -> 10
      [] k = 4 -> 11
      [] k = 5 -> 12
      [] k = 6 -> 18
      [] k = 7 -> 10
      [] k = 8 -> 12

\* len() of one token
TokLen(tok) == IF tok.t = "kw" THEN KeywordLen(tok.n) ELSE tok.n

\* len(text)
RECURSIVE TextLen(_)
TextLen(s) == IF s = <<>> THEN 0 ELSE TokLen(Head(s)) + TextLen(Tail(s))

\* text[:k]; a word cut in the middle is a shorter word, another token cut in
\* the middle leaves a fragment that is neither a link nor a navigation phrase
RECURSIVE TakeChars(_, _)
TakeChars(s, k) ==
    IF s = <<>> \/ k <= 0 THEN <<>>
    ELSE IF TokLen(Head(s)) <= k
         THEN <<Head(s)>> \o TakeChars(Tail(s), k - TokLen(Head(s)))
         ELSE <<[t |-> IF Head(s).t = "w" THEN "w" ELSE "cut", n |-> k]>>

\* the elements of s at the positions in K, in order
RECURSIVE FilterIdx(_, _, _)
FilterIdx(s, K, i) ==
    IF i > Len(s) THEN <<>>
    ELSE (IF i \in K THEN <<s[i]>> ELSE <<>>) \o FilterIdx(s, K, i + 1)

\* re.sub(r'\n{3,}', '\n\n', text): of a run of newlines the first two stay
CollapseNewlines(s) ==
    FilterIdx(s, {i \in 1..Len(s) :
                    ~(i > 2 /\ s[i] = Nl /\ s[i - 1] = Nl /\ s[i - 2] = Nl)}, 1)

\* text.replace('  ', ' '): of a run of spaces every second one goes
CollapseSpacesInPairs(s) ==
    FilterIdx(s, {i \in 1..Len(s) :
                    LET before == {j \in 0..(i - 1) : j = 0 \/ s[j] # Sp}
                        last == CHOOSE m \in before : \A n \in before : n <= m
                    IN  ~(s[i] = Sp /\ (i - last) % 2 = 0)}, 1)

\* re.sub(r' {2,}', ' ', text): of a run of spaces the first stays
CollapseSpaces(s) ==
    FilterIdx(s, {i \in 1..Len(s) : ~(i > 1 /\ s[i] = Sp /\ s[i - 1] = Sp)}, 1)

\* text.split('\n')
RECURSIVE SplitLines(_)
SplitLines(s) ==
    IF \A i \in 1..Len(s) : s[i] # Nl THEN <<s>>
    ELSE LET i == CHOOSE j \in 1..Len(s) :
                      s[j] = Nl /\ \A k \in 1..(j - 1) : s[k] # Nl
         IN <<SubSeq(s, 1, i - 1)>> \o SplitLines(SubSeq(s, i + 1, Len(s)))

\* line.strip() for a line of tokens
RECURSIVE StripLine(_)
StripLine(s) ==
    IF s = <<>> THEN s
    ELSE IF Head(s) \in {Sp, Nl, Tab} THEN StripLine(Tail(s))
    ELSE IF s[Len(s)] \in {Sp, Nl, Tab} THEN StripLine(SubSeq(s, 1, Len(s) - 1))
    ELSE s

\* '\n'.join(lines)
RECURSIVE JoinLines(_)
JoinLines(ls) ==
    IF ls = <<>> THEN <<>>
    ELSE IF Len(ls) = 1 THEN ls[1]
    ELSE ls[1] \o <<Nl>> \o JoinLines(Tail(ls))

\* AgadahContentFetcherTool._clean_text
CleanText(text) ==
    IF text = <<>> THEN <<>>
    ELSE LET collapsed == CollapseSpaces(CollapseNewlines(text))
             split == SplitLines(collapsed)
             lines == [i \in 1..Len(split) |-> StripLine(split[i])]
             kept == SelectSeq(lines, LAMBDA l : l # <<>>)
         IN StripLine(JoinLines(kept))

\* content.lower().count('http://') + content.lower().count('https://')
LinkCount(content) ==
    Cardinality({i \in 1..Len(content) :
                   content[i].t \in {"http://", "https://", "HTTP://"}})

\* sum(1 for keyword in strong_nav_keywords if keyword in content)
StrongNavScore(content) ==
    Cardinality({k \in StrongNavKeywords : \E i \in 1..Len(content) : content[i] = Kw(k)})

(***************************************************************************)
(* AgadahContentFetcherTool._run                                           *)
(***************************************************************************)

\* a retry loop of three passes
FetchMaxRetriesThree == 2 + 1

FetchMaxRetries == 2
FetchInitialDelay == 1
SelectorMinLength == 100
FallbackMinLength == 100
LinkThreshold == 10
NavThreshold == 2
ShortNavLength == 300
MaxContentLength == 5000
MinStoryLength == 150

\* "... [content truncated]"
TruncationMarker == [t |-> "marker", n |-> 23]

\* invalid_patterns
InvalidPatterns ==
    { <<"/", "category", "/">>, <<"/", "tag", "/">>, <<"/", "author", "/">>,
      <<"/", "page", "/">>, <<"/", "feed", "/">> }

\* the json.dumps results of _run: the keys present and their values ("" , <<>>
\* and 0 stand for a key that is absent)
NoKeys ==
    [keys |-> {}, error |-> "", status |-> "", url |-> <<>>, title |-> "",
     content |-> <<>>, content_length |-> 0, link_count |-> 0,
     navigation_indicators |-> 0]

ErrorOnly(msg) == [NoKeys EXCEPT !.keys = {"error"}, !.error = msg]

ErrorStatus(msg, url, status) ==
    [NoKeys EXCEPT !.keys = {"error", "url", "status"}, !.error = msg,
                   !.url = url, !.status = status]

QualityError(msg, url, title, content) ==
    [NoKeys EXCEPT !.keys = {"error", "url", "title", "content_length"},
                   !.error = msg, !.url = url,
                   !.title = IF title = "" THEN "Unknown" ELSE title,
                   !.content_length = TextLen(content)]

\* the checks of lines 52-94 without the trusted-domain check of line 67
FetchPrecheckNoDomain(raw) ==
    LET url == Unquote(Strip(raw))
    IN  IF raw = <<>> \/ Strip(raw) = <<>>
            THEN <<ErrorOnly("URL cannot be empty")>>
        ELSE IF ~(StartsWith(url, HttpPrefix) \/ StartsWith(url, HttpsPrefix))
            THEN <<ErrorOnly("Invalid URL format")>>
        ELSE IF \E pattern \in InvalidPatterns : Contains(Lower(url), pattern)
            THEN <<ErrorStatus("URL appears to be a category/archive page, not a story",
                               url, "invalid_url_type")>>
        ELSE IF RStripChunk(url, "/") \in {HttpsPrefix \o TrustedDomain,
                                           HttpPrefix \o TrustedDomain}
            THEN <<ErrorStatus("URL is the homepage, not a story", url, "homepage")>>
        ELSE <<>>

\* lines 52-94: the checks made before any request; <<>> when all pass
FetchPrecheck(raw) ==
    LET url == Unquote(Strip(raw))
    IN  IF raw = <<>> \/ Strip(raw) = <<>>
            THEN <<ErrorOnly("URL cannot be empty")>>
        ELSE IF ~(StartsWith(url, HttpPrefix) \/ StartsWith(url, HttpsPrefix))
            THEN <<ErrorOnly("Invalid URL format")>>
        ELSE IF ~Contains(url, TrustedDomain)
            THEN <<ErrorOnly("URL must be from agadah.org.il")>>
        ELSE IF \E pattern \in InvalidPatterns : Contains(Lower(url), pattern)
            THEN <<ErrorStatus("URL appears to be a category/archive page, not a story",
                               url, "invalid_url_type")>>
        ELSE IF RStripChunk(url, "/") \in {HttpsPrefix \o TrustedDomain,
                                           HttpPrefix \o TrustedDomain}
            THEN <<ErrorStatus("URL is the homepage, not a story", url, "homepage")>>
        ELSE <<>>

\* lines 113 and 127: is another attempt made after a failed one
FetchRetries(attempt) == attempt < FetchMaxRetries - 1

\* lines 112-139: the exception classes the retry loop catches
FetchFailureResult(outcome, url) ==
    IF outcome = "timeout"
    THEN ErrorStatus("Timeout after max_retries attempts", url, "timeout_error")
    ELSE ErrorStatus("Network error after max_retries attempts", url, "network_error")

\* lines 163-182: the loop over content_selectors
ContentSelectors == 1..7

RECURSIVE SelectorLoop(_, _, _)
SelectorLoop(doc, i, content) ==
    IF i \notin ContentSelectors THEN content
    ELSE IF doc.sel[i].present
         THEN IF TextLen(doc.sel[i].text) > SelectorMinLength
              THEN doc.sel[i].text
              ELSE SelectorLoop(doc, i + 1, doc.sel[i].text)
         ELSE SelectorLoop(doc, i + 1, content)

\* lines 163-191: the extracted text before cleaning
ExtractContent(doc) ==
    LET content == SelectorLoop(doc, 1, <<>>)
    IN  IF (content = <<>> \/ TextLen(content) < FallbackMinLength) /\ doc.body.present
        THEN doc.body.text
        ELSE content

\* the quality checks with the navigation-keyword check before the link check
QualityCheckNavFirst(content) ==
    IF content = <<>> THEN ""
    ELSE IF StrongNavScore(content) >= NavThreshold
        THEN "Content appears to be a navigation/menu page"
    ELSE IF LinkCount(content) > LinkThreshold
        THEN "Content contains too many links"
    ELSE IF TextLen(content) < ShortNavLength /\ StrongNavScore(content) >= 1
        THEN "Content too short with navigation elements"
    ELSE ""

\* lines 197-244: the three quality checks, in order; "" when all pass
QualityCheck(content) ==
    IF content = <<>> THEN ""
    ELSE IF LinkCount(content) > LinkThreshold
        THEN "Content contains too many links"
    ELSE IF StrongNavScore(content) >= NavThreshold
        THEN "Content appears to be a navigation/menu page"
    ELSE IF TextLen(content) < ShortNavLength /\ StrongNavScore(content) >= 1
        THEN "Content too short with navigation elements"
    ELSE ""

\* lines 246-248
Truncate(content) ==
    IF TextLen(content) > MaxContentLength
    THEN TakeChars(content, MaxContentLength) \o <<TruncationMarker>>
    ELSE content

\* the minimum of line 251 set to the selector minimum of line 181
TooShortSelectorMinimum(content) == content = <<>> \/ TextLen(content) < SelectorMinLength

\* line 251
TooShort(content) == content = <<>> \/ TextLen(content) < MinStoryLength

\* lines 151-279: what _run returns for a response that was received
ProcessResponse(url, doc) ==
    IF ~doc.parse_ok
    THEN ErrorStatus("Unexpected error processing content", url, "processing_error")
    ELSE
    LET content == CleanText(ExtractContent(doc))
        verdict == QualityCheck(content)
        final == Truncate(content)
    IN  IF verdict = "Content contains too many links"
            THEN [QualityError(verdict, url, doc.title, content)
                    EXCEPT !.keys = @ \cup {"link_count"},
                           !.link_count = LinkCount(content)]
        ELSE IF verdict = "Content appears to be a navigation/menu page"
            THEN [QualityError(verdict, url, doc.title, content)
                    EXCEPT !.keys = @ \cup {"navigation_indicators"},
                           !.navigation_indicators = StrongNavScore(content)]
        ELSE IF verdict # ""
            THEN QualityError(verdict, url, doc.title, content)
        ELSE IF TooShort(final)
            THEN QualityError("Content too short", url, doc.title, final)
        ELSE [NoKeys EXCEPT
                !.keys = {"url", "title", "content", "content_length", "status"},
                !.url = url,
                !.title = IF doc.title = "" THEN "Unknown" ELSE doc.title,
                !.content = final,
                !.content_length = TextLen(final),
                !.status = "success"]

(***************************************************************************)
(* The URLs and documents the fetcher is run on.                           *)
(***************************************************************************)

\* the largest number of links in a generated page text
MaxLinks == 12

StoryPath == <<"/", "story", "/", "x">>
EvilHost == <<"evil.com">>

Schemes ==
    { <<>>, HttpPrefix, HttpsPrefix, <<"ftp:", "/", "/">>, <<"HTTPS:", "/", "/">> }

\* hosts that are not the trusted domain but have its name in them, and the
\* trusted domain with its dot percent-encoded
LookalikeHosts ==
    { TrustedDomain \o <<".">> \o EvilHost,
      <<"not">> \o TrustedDomain,
      TrustedDomain \o <<"@">> \o EvilHost }

EncodedTrustedHost == <<"agadah", "%2E", "org.il">>

ListingPaths ==
    { <<"/", "category", "/", "x">>, <<"/", "Category", "/">>,
      <<"%2F", "page", "%2F", "2">>, <<"/", "category">>,
      <<"/", "feed", "/">>, <<"/", "tag", "/", "x">>, <<"/", "author", "/", "x">>,
      StoryPath \o <<"?", "u=">> \o TrustedDomain }

Urls ==
    { <<>>, <<" ">>, <<" ">> \o HttpsPrefix \o TrustedDomain \o <<"/", " ">> }
    \cup { scheme \o TrustedDomain \o tail :
             scheme \in Schemes, tail \in {<<>>, <<"/">>, StoryPath} }
    \cup { HttpsPrefix \o host \o StoryPath :
             host \in LookalikeHosts \cup {EncodedTrustedHost, EvilHost} }
    \cup { HttpsPrefix \o TrustedDomain \o path : path \in ListingPaths }
    \cup { HttpsPrefix \o EvilHost \o tail :
             tail \in { <<"/">> \o TrustedDomain, <<"?", "u=">> \o TrustedDomain } }

Absent == [present |-> FALSE, text |-> <<>>]
Elem(text) == [present |-> TRUE, text |-> text]

\* a parsed page: its title, what each of the content selectors matches, its body
Doc(title, article, main, body) ==
    [parse_ok |-> TRUE, title |-> title,
     sel |-> [i \in ContentSelectors |->
                IF i = 1 THEN article ELSE IF i = 5 THEN main ELSE Absent],
     body |-> body]

Links(k) ==
    [i \in 1..k |-> IF i % 3 = 1 THEN LinkHttp ELSE IF i % 3 = 2 THEN LinkHttps ELSE LinkUpper]

StoryTexts ==
    { Links(k) \o kws \o filler :
        k \in {0} \cup LinkThreshold..MaxLinks,
        kws \in { <<>>, <<Kw(1)>>, <<Kw(1), Sp, Kw(7)>> },
        filler \in { <<>>, <<W(40)>>, <<W(149)>>, <<W(150)>>, <<W(290)>>,
                     <<W(100), Sp, Sp, W(48)>>, <<W(5001)>>,
                     <<W(3000), Nl, Nl, Nl, W(2000)>> } }

Docs ==
    { Doc("T", Elem(text), Absent, Absent) : text \in StoryTexts }
    \cup { Doc("", article, main, body) :
             article \in {Absent, Elem(<<>>), Elem(<<W(100)>>), Elem(<<W(101)>>)},
             main \in {Absent, Elem(<<W(99)>>), Elem(<<W(100)>>), Elem(<<W(160)>>)},
             body \in {Absent, Elem(<<W(20)>>), Elem(<<W(180)>>)} }
    \cup { [Doc("T", Absent, Absent, Absent) EXCEPT !.parse_ok = FALSE] }

\* what one GET can end in: a 2xx response, requests.exceptions.Timeout, another
\* RequestException of the transport, or the HTTPError of raise_for_status()
Outcomes == {"ok", "timeout", "connection_error", "http_error"}

InitFetch ==
    /\ fPc = "idle"
    /\ fRaw = <<>>
    /\ fUrl = <<>>
    /\ fAttempt = 0
    /\ fRetryDelay = FetchInitialDelay
    /\ fNet = <<>>
    /\ fSleeps = <<>>
    /\ fResponse = <<>>
    /\ fResult = <<>>

\* lines 52-101: the call, up to the first request
FetchCall(raw) ==
    /\ fPc = "idle"
    /\ fRaw' = raw
    /\ fUrl' = IF raw = <<>> \/ Strip(raw) = <<>> THEN raw ELSE Unquote(Strip(raw))
    /\ fAttempt' = 0
    /\ fRetryDelay' = FetchInitialDelay
    /\ fNet' = <<>>
    /\ fSleeps' = <<>>
    /\ fResponse' = <<>>
    /\ fResult' = FetchPrecheck(raw)
    /\ fPc' = IF FetchPrecheck(raw) = <<>> THEN "attempt" ELSE "done"

\* lines 103-149: one pass of the retry loop
FetchAttempt(outcome, doc) ==
    /\ fPc = "attempt"
    /\ fNet' = Append(fNet, [method |-> "GET", url |-> fUrl, outcome |-> outcome])
    /\ fResponse' = IF outcome \in {"ok", "http_error"} THEN <<doc>> ELSE fResponse
    /\ IF outcome = "ok"
       THEN /\ fPc' = "process"
            /\ UNCHANGED <<fAttempt, fRetryDelay, fSleeps, fResult>>
       ELSE IF FetchRetries(fAttempt)
       THEN /\ fSleeps' = Append(fSleeps, fRetryDelay)
            /\ fRetryDelay' = fRetryDelay * 2
            /\ fAttempt' = fAttempt + 1
            /\ IF fAttempt + 1 < FetchMaxRetries
               THEN /\ fPc' = "attempt"
                    /\ fResult' = fResult
               ELSE IF fResponse' = <<>>
               THEN /\ fPc' = "done"
                    /\ fResult' = <<ErrorStatus("Failed to fetch content after max_retries attempts",
                                                fUrl, "fetch_failed")>>
               ELSE /\ fPc' = "process"
                    /\ fResult' = fResult
       ELSE /\ fPc' = "done"
            /\ fResult' = <<FetchFailureResult(outcome, fUrl)>>
            /\ UNCHANGED <<fAttempt, fRetryDelay, fSleeps>>
    /\ UNCHANGED <<fRaw, fUrl>>

\* lines 151-279: parsing, extraction and the quality checks
FetchProcess ==
    /\ fPc = "process"
    /\ fResult' = <<ProcessResponse(fUrl, fResponse[1])>>
    /\ fPc' = "done"
    /\ UNCHANGED <<fRaw, fUrl, fAttempt, fRetryDelay, fNet, fSleeps, fResponse>>

\* the caller takes the result; the tool is ready for the next call
FetchReturn ==
    /\ fPc = "done"
    /\ fPc' = "idle"
    /\ fRaw' = <<>>
    /\ fUrl' = <<>>
    /\ fAttempt' = 0
    /\ fRetryDelay' = FetchInitialDelay
    /\ fNet' = <<>>
    /\ fSleeps' = <<>>
    /\ fResponse' = <<>>
    /\ fResult' = <<>>

FetchCallAny == \E raw \in Urls : FetchCall(raw)
\* the page of a 4xx/5xx response
ErrorPage == Doc("T", Absent, Absent, Elem(<<W(20)>>))

FetchAttemptAny ==
    \E outcome \in Outcomes :
        \E doc \in (IF outcome = "ok" THEN Docs ELSE {ErrorPage}) :
            FetchAttempt(outcome, doc)

(***************************************************************************)
(* StoryReference.validate_url                                             *)
(***************************************************************************)

\* models.py lines 148-173: TRUE when the validator returns, FALSE when it
\* raises ValueError (the suspicious-pattern loop only logs)
ValidateUrlAccepts(v) ==
    /\ v # <<>>
    /\ Strip(v) # <<>>
    /\ StartsWith(Strip(v), HttpPrefix) \/ StartsWith(Strip(v), HttpsPrefix)
    /\ Contains(Strip(v), TrustedDomain)

InitValidator ==
    /\ vUrl = <<>>
    /\ vResult = "none"

ValidateStoryUrl(v) ==
    /\ vResult = "none"
    /\ vUrl' = v
    /\ vResult' = IF ValidateUrlAccepts(v) THEN "accepted" ELSE "ValueError"

\* the caller takes the outcome of the validation
ValidatorReturn ==
    /\ vResult # "none"
    /\ vUrl' = <<>>
    /\ vResult' = "none"

ValidateStoryUrlAny == \E v \in Urls : ValidateStoryUrl(v)

(***************************************************************************)
(* AgadahWordPressSearchTool                                               *)
(***************************************************************************)

SearchMaxRetries == 3
SearchInitialDelay == 1
MinLimit == 1
MaxLimit == 20

\* the largest number of raw results in an index response
MaxItems == 2

SchemeChunks == {"http:", "https:", "ftp:", "HTTPS:"}

\* the first position of s holding a chunk of C, or Len(s) + 1
FirstOf(s, C) ==
    IF \E i \in 1..Len(s) : s[i] \in C
    THEN CHOOSE i \in 1..Len(s) : s[i] \in C /\ \A j \in 1..(i - 1) : s[j] \notin C
    ELSE Len(s) + 1

\* urllib.parse.urlparse: scheme (lower-cased), netloc, path, query; the
\* fragment is split off and dropped by the caller
UrlParse(url) ==
    LET hasScheme == url # <<>> /\ Head(url) \in SchemeChunks
        scheme == IF hasScheme THEN LowerChunk(Head(url)) ELSE ""
        rest1 == IF hasScheme THEN Tail(url) ELSE url
        hasNetloc == StartsWith(rest1, <<"/", "/">>)
        afterSlashes == IF hasNetloc THEN SubSeq(rest1, 3, Len(rest1)) ELSE rest1
        n == FirstOf(afterSlashes, {"/", "?", "#"})
        netloc == IF hasNetloc THEN SubSeq(afterSlashes, 1, n - 1) ELSE <<>>
        rest2 == IF hasNetloc THEN SubSeq(afterSlashes, n, Len(afterSlashes)) ELSE rest1
        noFrag == SubSeq(rest2, 1, FirstOf(rest2, {"#"}) - 1)
        q == FirstOf(noFrag, {"?"})
    IN  [scheme |-> scheme, netloc |-> netloc,
         path |-> SubSeq(noFrag, 1, q - 1),
         query |-> SubSeq(noFrag, q + 1, Len(noFrag))]

\* lines 197-215: the checks made before the HEAD request
LinkPassesChecks(url) ==
    /\ url # <<>>
    /\ Strip(url) # <<>>
    /\ LET parsed == UrlParse(Unquote(Strip(url)))
       IN  /\ parsed.netloc # <<>>
           /\ Contains(parsed.netloc, TrustedDomain)
           /\ parsed.scheme \in {"http:", "https:"}

\* lines 218-222: clean_url
CleanUrl(url) ==
    LET parsed == UrlParse(Unquote(Strip(url)))
    IN  <<parsed.scheme, "/", "/">> \o parsed.netloc \o parsed.path
          \o (IF parsed.query # <<>> THEN <<"?">> \o parsed.query ELSE <<>>)

\* what the HEAD request can end in: a final status code or a RequestException
StatusOf(code) == [kind |-> "status", code |-> code]
HeadOutcomes ==
    { StatusOf(200), StatusOf(404), StatusOf(503),
      [kind |-> "timeout", code |-> 0], [kind |-> "connection_error", code |-> 0] }
NoHead == [kind |-> "not_requested", code |-> 0]

\* a HEAD confirmation that drops the link when the request fails
HeadKeepsOnlyAnswered(head) == head.kind = "status" /\ head.code < 400

\* lines 225-241: does the link survive the HEAD confirmation
HeadKeeps(head) ==
    IF head.kind = "status"
    THEN ~(head.code = 404 \/ head.code >= 400)
    ELSE TRUE

\* _validate_and_clean_url: <<>> for None, <<clean_url>> otherwise
ValidateAndCleanUrl(url, head) ==
    IF LinkPassesChecks(url) /\ HeadKeeps(head) THEN <<CleanUrl(url)>> ELSE <<>>

\* _run line 80
ClampLimit(limit) ==
    LET lo == IF limit > MinLimit THEN limit ELSE MinLimit
    IN  IF lo < MaxLimit THEN lo ELSE MaxLimit

\* the JSON text _run returns: an object with an error, or the list of results
SearchError(msg) == [kind |-> "error", error |-> msg, results |-> <<>>]
SearchList(results) == [kind |-> "list", error |-> "", results |-> results]

\* a raw result of the index; shape "excerpt_null" has "excerpt": null, on which
\* item.get("excerpt", {}).get raises inside the per-item try
RawItem(link, shape) == [link |-> link, shape |-> shape, title |-> "T", date |-> "D"]

\* a link on the trusted host, percent-encoded, with a query and a fragment
TrustedLink ==
    HttpPrefix \o EncodedTrustedHost \o StoryPath \o <<"?", "u=", "#", "top">>

SearchLinks ==
    { <<" ">>,
      TrustedLink,
      HttpsPrefix \o EvilHost \o StoryPath,
      HttpsPrefix \o TrustedDomain \o <<".">> \o EvilHost \o StoryPath,
      <<"ftp:", "/", "/">> \o TrustedDomain \o StoryPath }

RawItems ==
    { RawItem(link, "ok") : link \in SearchLinks }
    \cup { RawItem(HttpsPrefix \o TrustedDomain \o StoryPath, "excerpt_null") }

RECURSIVE SeqsUpTo(_, _)
SeqsUpTo(S, n) ==
    IF n = 0 THEN { <<>> }
    ELSE LET shorter == SeqsUpTo(S, n - 1)
         IN  shorter \cup { Append(q, x) : q \in shorter, x \in S }

\* the body of a 2xx response of the index
Bodies ==
    { [kind |-> "invalid_json", items |-> <<>>], [kind |-> "null", items |-> <<>>] }
    \cup { [kind |-> "list", items |-> items] : items \in SeqsUpTo(RawItems, MaxItems) }

Queries == { <<>>, <<" ">>, <<"q">> }
Limits == {25}

InitSearch ==
    /\ sPc = "idle"
    /\ sLimit = 0
    /\ sAttempt = 0
    /\ sRetryDelay = SearchInitialDelay
    /\ sNet = <<>>
    /\ sSleeps = <<>>
    /\ sBody = <<>>
    /\ sIdx = 0
    /\ sItemLog = <<>>
    /\ sFormatted = <<>>
    /\ sResult = <<>>

\* _run lines 74-82: the call, up to the first request
SearchCall(query, limit) ==
    /\ sPc = "idle"
    /\ sLimit' = IF query = <<>> \/ Strip(query) = <<>> THEN 0 ELSE ClampLimit(limit)
    /\ sAttempt' = 0
    /\ sRetryDelay' = SearchInitialDelay
    /\ sNet' = <<>>
    /\ sSleeps' = <<>>
    /\ sBody' = <<>>
    /\ sIdx' = 0
    /\ sItemLog' = <<>>
    /\ sFormatted' = <<>>
    /\ IF query = <<>> \/ Strip(query) = <<>>
       THEN /\ sPc' = "done"
            /\ sResult' = <<SearchError("Search query cannot be empty")>>
       ELSE /\ sPc' = "attempt"
            /\ sResult' = <<>>

\* a wait after every failed attempt, the last one too
SearchRetriesAfterLast(attempt) == attempt < SearchMaxRetries

\* _perform_request lines 149 and 160: is another attempt made after a failed one
SearchRetries(attempt) == attempt < SearchMaxRetries - 1

\* a failed index call reported as an empty list of results
SearchNoResponseEmptyList == SearchList(<<>>)

\* _run line 93-94: what _run returns when _perform_request returned None
SearchNoResponse == SearchError("Failed to connect to agadah.org.il")

\* _run lines 96-103 and 134-137: what the received body leads to before the
\* loop over the results; <<>> when the loop is entered
SearchAfterResponse(body) ==
    IF body.kind = "invalid_json" THEN <<SearchError("Invalid response from server")>>
    ELSE IF body.kind = "null" THEN <<SearchError("Unexpected error searching")>>
    ELSE IF body.items = <<>> THEN <<SearchList(<<>>)>>
    ELSE <<>>

\* _perform_request: one pass of the retry loop, and _run up to the loop over
\* the results when the response arrived
SearchAttempt(outcome, body) ==
    /\ sPc = "attempt"
    /\ sNet' = Append(sNet, [method |-> "GET", outcome |-> outcome])
    /\ IF outcome = "ok"
       THEN /\ sBody' = <<body>>
            /\ sResult' = SearchAfterResponse(body)
            /\ sPc' = IF SearchAfterResponse(body) = <<>> THEN "items" ELSE "done"
            /\ sIdx' = 1
            /\ UNCHANGED <<sAttempt, sRetryDelay, sSleeps>>
       ELSE IF SearchRetries(sAttempt)
       THEN /\ sSleeps' = Append(sSleeps, sRetryDelay)
            /\ sRetryDelay' = sRetryDelay * 2
            /\ sAttempt' = sAttempt + 1
            /\ IF sAttempt + 1 < SearchMaxRetries
               THEN /\ sPc' = "attempt"
                    /\ sResult' = sResult
               ELSE /\ sPc' = "done"
                    /\ sResult' = <<SearchNoResponse>>
            /\ UNCHANGED <<sBody, sIdx>>
       ELSE /\ sPc' = "done"
            /\ sResult' = <<SearchNoResponse>>
            /\ UNCHANGED <<sAttempt, sRetryDelay, sSleeps, sBody, sIdx>>
    /\ UNCHANGED <<sLimit, sItemLog, sFormatted>>

\* _run lines 104-129: is the raw result appended to formatted_results
ItemAppended(item, head) ==
    /\ item.link # <<>>
    /\ Strip(item.link) # <<>>
    /\ ValidateAndCleanUrl(item.link, head) # <<>>
    /\ item.shape = "ok"

\* _run lines 103-132: one pass of the loop over the results, with the HEAD
\* request of _validate_and_clean_url, and the return after the last pass
SearchItem(head) ==
    /\ sPc = "items"
    /\ LET item == sBody[1].items[sIdx]
           appended == ItemAppended(item, head)
           formatted == IF appended
                        THEN Append(sFormatted,
                                    [title |-> item.title,
                                     link |-> ValidateAndCleanUrl(item.link, head)[1],
                                     excerpt |-> <<>>, date |-> item.date])
                        ELSE sFormatted
       IN  /\ sFormatted' = formatted
           /\ sItemLog' = Append(sItemLog, [link |-> item.link, shape |-> item.shape,
                                            head |-> head, appended |-> appended])
           /\ IF sIdx = Len(sBody[1].items)
              THEN /\ sPc' = "done"
                   /\ sResult' = <<SearchList(formatted)>>
              ELSE /\ sPc' = "items"
                   /\ sResult' = sResult
    /\ sIdx' = sIdx + 1
    /\ UNCHANGED <<sLimit, sAttempt, sRetryDelay, sNet, sSleeps, sBody>>

\* the caller takes the result; the tool is ready for the next call
SearchReturn ==
    /\ sPc = "done"
    /\ sPc' = "idle"
    /\ sLimit' = 0
    /\ sAttempt' = 0
    /\ sRetryDelay' = SearchInitialDelay
    /\ sNet' = <<>>
    /\ sSleeps' = <<>>
    /\ sBody' = <<>>
    /\ sIdx' = 0
    /\ sItemLog' = <<>>
    /\ sFormatted' = <<>>
    /\ sResult' = <<>>

SearchCallAny == \E query \in Queries : \E limit \in Limits : SearchCall(query, limit)

SearchAttemptAny ==
    \E outcome \in Outcomes :
        \E body \in (IF outcome = "ok" THEN Bodies ELSE {[kind |-> "null", items |-> <<>>]}) :
            SearchAttempt(outcome, body)

\* the HEAD request is issued only for a link that passed the checks before it
SearchItemAny ==
    \E head \in (IF sPc = "items" /\ LinkPassesChecks(sBody[1].items[sIdx].link)
                 THEN HeadOutcomes ELSE {NoHead}) :
        SearchItem(head)

(***************************************************************************)
(* RunLogger and the run_logger context manager                            *)
(***************************************************************************)

\* the latest clock reading, and the most log_error calls the body of one run
\* makes
MaxClock == 1
MaxBodyErrors == 1

\* two runs, which may overlap
RunIds == {1, 2}

\* RunLogger.__init__ lines 33-48; <<>> stands for None
NewRunData(run_id, now) ==
    [run_id |-> run_id, start_time |-> now, end_time |-> <<>>,
     duration_seconds |-> <<>>, user_input |-> <<>>, final_output |-> <<>>,
     agents |-> <<>>, total_tokens |-> [input |-> 0, output |-> 0, total |-> 0],
     models_used |-> <<>>, errors |-> <<>>]

\* RunLogger.log_input
LogInput(d, user_input) == [d EXCEPT !.user_input = <<user_input>>]

\* RunLogger.log_error
LogError(d, error_msg, exception, now) ==
    [d EXCEPT !.errors = Append(@, [message |-> error_msg, timestamp |-> now,
                                    exception |-> exception])]

\* RunLogger.log_output
LogOutput(d, final_output) == [d EXCEPT !.final_output = <<final_output>>]

\* RunLogger.finalize lines 172-177
Finalize(d, now) ==
    [d EXCEPT !.end_time = <<now>>, !.duration_seconds = <<now - d.start_time>>]

\* run_logger without its except clause
CaughtByExceptNever(how) == FALSE

\* run_logger line 235: the exits of the with body that `except Exception` catches
CaughtByExcept(how) == how = "Exception"

\* how the body of the with statement can end: it returns, it raises an
\* Exception, or it raises a BaseException that is no Exception
\* (KeyboardInterrupt, GeneratorExit, asyncio.CancelledError)
Exits == {"return", "Exception", "BaseException"}

ExceptionText(how) == IF how = "Exception" THEN "boom" ELSE "cancelled"

NoRun ==
    [pc |-> "idle", has_logger |-> FALSE, run_data |-> NewRunData(0, 0),
     finalize_calls |-> 0, json_file |-> <<>>, exit |-> "", events |-> <<>>]

InitLogger ==
    /\ current = 0
    /\ runs = [r \in RunIds |-> NoRun]
    /\ clock = 0

\* run_logger lines 218-234: up to the yield
RunEnter(r, enable_detailed_logs) ==
    /\ runs[r].pc = "idle"
    /\ IF enable_detailed_logs
       THEN /\ runs' = [runs EXCEPT ![r] =
                          [@ EXCEPT !.pc = "body", !.has_logger = TRUE,
                                    !.run_data = LogInput(NewRunData(clock, clock), "input")]]
            /\ current' = r
       ELSE /\ runs' = [runs EXCEPT ![r] = [@ EXCEPT !.pc = "body"]]
            /\ current' = current
    /\ UNCHANGED clock

\* main.py line 164: f"<error label>: {str(e)}", the label being the Hebrew
\* word for error
UserMessage(exception) == <<"error_label", ": ">> \o exception

\* main.py lines 159-165: the body catches an Exception, logs it on its own
\* recorder when it has one, and sends the error event
BodyLogError(r) ==
    /\ runs[r].pc = "body"
    /\ Len(runs[r].events) < MaxBodyErrors
    /\ runs' = [runs EXCEPT
                  ![r].run_data =
                      IF runs[r].has_logger
                      THEN LogError(@, "Generation failed", <<"boom">>, clock)
                      ELSE @,
                  ![r].events =
                      Append(@, [event |-> "error", message |-> UserMessage(<<"boom">>),
                                 errors_logged |-> IF runs[r].has_logger
                                                   THEN Len(runs[r].run_data.errors) + 1
                                                   ELSE 0])]
    /\ UNCHANGED <<current, clock>>

\* main.py lines 129-130
BodyLogOutput(r) ==
    /\ runs[r].pc = "body"
    /\ runs[r].has_logger
    /\ runs[r].run_data.final_output = <<>>
    /\ runs' = [runs EXCEPT ![r].run_data = LogOutput(@, "output")]
    /\ UNCHANGED <<current, clock>>

\* run_logger lines 235-241 (and 222-223 without a recorder): the with body ends
RunExit(r, how) ==
    /\ runs[r].pc = "body"
    /\ IF runs[r].has_logger
       THEN LET logged == IF CaughtByExcept(how)
                          THEN LogError(runs[r].run_data, "Run failed with exception",
                                        <<ExceptionText(how)>>, clock)
                          ELSE runs[r].run_data
                final == Finalize(logged, clock)
            IN  /\ runs' = [runs EXCEPT ![r] =
                              [@ EXCEPT !.pc = "exited", !.run_data = final,
                                        !.finalize_calls = @ + 1,
                                        !.json_file = <<final>>, !.exit = how]]
                /\ current' = 0
       ELSE /\ runs' = [runs EXCEPT ![r] = [@ EXCEPT !.pc = "exited", !.exit = how]]
            /\ current' = current
    /\ UNCHANGED clock

\* time passes
Tick ==
    /\ clock < MaxClock
    /\ clock' = clock + 1
    /\ UNCHANGED <<current, runs>>

RunEnterAny == \E r \in RunIds : \E enabled \in BOOLEAN : RunEnter(r, enabled)
BodyLogErrorAny == \E r \in RunIds : BodyLogError(r)
BodyLogOutputAny == \E r \in RunIds : BodyLogOutput(r)
RunExitAny == \E r \in RunIds : \E how \in Exits : RunExit(r, how)

(***************************************************************************)
(* The methods of RunLogger, called in any order on one recorder.  An      *)
(* agent_index is the value log_agent_start returned, counted from 0.      *)
(***************************************************************************)

\* the most agents one recorder holds and the most calls made on it
MaxAgents == 2
MaxCalls == 5

\* log_tool_call line 144: the longest result stored whole
ResultLimit == 500

\* a tool result of n characters as log_tool_call stores it
StoredResult(n) ==
    IF n > ResultLimit THEN [chars |-> ResultLimit, dots |-> TRUE]
    ELSE [chars |-> n, dots |-> FALSE]

\* RunLogger("0") right after construction
InitRecorder ==
    rec = [run_data |-> NewRunData(0, 0), json_file |-> <<>>,
           finalize_calls |-> 0, calls |-> 0]

\* log_agent_start
RecorderLogAgentStart(agent_name, task_description) ==
    /\ rec.calls < MaxCalls
    /\ Len(rec.run_data.agents) < MaxAgents
    /\ rec' = [rec EXCEPT !.calls = @ + 1,
                  !.run_data.agents = Append(@,
                      [name |-> agent_name, start_time |-> clock, end_time |-> <<>>,
                       duration_seconds |-> <<>>, task |-> task_description,
                       output |-> <<>>, tokens |-> [input |-> 0, output |-> 0],
                       model |-> <<>>, tool_calls |-> <<>>])]
    /\ UNCHANGED <<current, runs, clock>>

\* log_agent_end
RecorderLogAgentEnd(agent_index, output) ==
    /\ rec.calls < MaxCalls
    /\ IF agent_index < Len(rec.run_data.agents)
       THEN rec' = [rec EXCEPT !.calls = @ + 1,
                       !.run_data.agents[agent_index + 1] =
                           [end_time |-> <<clock>>, output |-> <<output>>,
                            duration_seconds |-> <<clock - @.start_time>>]
                           @@ @]
       ELSE rec' = [rec EXCEPT !.calls = @ + 1]
    /\ UNCHANGED <<current, runs, clock>>

\* log_llm_call with a run total that counts the input tokens only
RecorderLogLlmCallInputOnly(agent_index, model, input_tokens, output_tokens) ==
    /\ rec.calls < MaxCalls
    /\ IF agent_index < Len(rec.run_data.agents)
       THEN rec' = [rec EXCEPT !.calls = @ + 1,
                       !.run_data.agents[agent_index + 1] =
                           [@ EXCEPT !.tokens.input = @ + input_tokens,
                                     !.tokens.output = @ + output_tokens,
                                     !.model = <<model>>],
                       !.run_data.total_tokens =
                           [input |-> @.input + input_tokens,
                            output |-> @.output + output_tokens,
                            total |-> @.total + input_tokens],
                       !.run_data.models_used =
                           IF \E i \in 1..Len(@) : @[i] = model THEN @ ELSE Append(@, model)]
       ELSE rec' = [rec EXCEPT !.calls = @ + 1]
    /\ UNCHANGED <<current, runs, clock>>

\* log_llm_call
RecorderLogLlmCall(agent_index, model, input_tokens, output_tokens) ==
    /\ rec.calls < MaxCalls
    /\ IF agent_index < Len(rec.run_data.agents)
       THEN rec' = [rec EXCEPT !.calls = @ + 1,
                       !.run_data.agents[agent_index + 1] =
                           [@ EXCEPT !.tokens.input = @ + input_tokens,
                                     !.tokens.output = @ + output_tokens,
                                     !.model = <<model>>],
                       !.run_data.total_tokens =
                           [input |-> @.input + input_tokens,
                            output |-> @.output + output_tokens,
                            total |-> @.total + (input_tokens + output_tokens)],
                       !.run_data.models_used =
                           IF \E i \in 1..Len(@) : @[i] = model THEN @ ELSE Append(@, model)]
       ELSE rec' = [rec EXCEPT !.calls = @ + 1]
    /\ UNCHANGED <<current, runs, clock>>

\* log_tool_call; the result is given by its length
RecorderLogToolCall(agent_index, tool_name, result) ==
    /\ rec.calls < MaxCalls
    /\ IF agent_index < Len(rec.run_data.agents)
       THEN rec' = [rec EXCEPT !.calls = @ + 1,
                       !.run_data.agents[agent_index + 1].tool_calls = Append(@,
                           [name |-> tool_name, timestamp |-> clock,
                            result |-> StoredResult(result)])]
       ELSE rec' = [rec EXCEPT !.calls = @ + 1]
    /\ UNCHANGED <<current, runs, clock>>

\* log_error
RecorderLogError(error_msg) ==
    /\ rec.calls < MaxCalls
    /\ rec' = [rec EXCEPT !.calls = @ + 1,
                  !.run_data = LogError(@, error_msg, <<>>, clock)]
    /\ UNCHANGED <<current, runs, clock>>

\* log_output
RecorderLogOutput(final_output) ==
    /\ rec.calls < MaxCalls
    /\ rec' = [rec EXCEPT !.calls = @ + 1, !.run_data = LogOutput(@, final_output)]
    /\ UNCHANGED <<current, runs, clock>>

\* finalize: end_time and duration_seconds are set, run_data is written to
\* the JSON file
RecorderFinalize ==
    /\ rec.calls < MaxCalls
    /\ rec' = [rec EXCEPT !.calls = @ + 1, !.run_data = Finalize(@, clock),
                  !.json_file = <<Finalize(rec.run_data, clock)>>,
                  !.finalize_calls = @ + 1]
    /\ UNCHANGED <<current, runs, clock>>

AgentIndexes == 0..MaxAgents
ResultLengths == {ResultLimit, ResultLimit + 1}

(***************************************************************************)
(* _clean_text on texts of words, spaces, newlines and tabs                *)
(***************************************************************************)

\* the longest text given to _clean_text, in tokens
MaxTextLen == 5

RawTexts == SeqsUpTo({W(1), Sp, Nl, Tab}, MaxTextLen)

InitClean ==
    /\ cPc = "idle"
    /\ cText = <<>>
    /\ cOut = <<>>

CleanCall(text) ==
    /\ cPc = "idle"
    /\ cText' = text
    /\ cOut' = CleanText(text)
    /\ cPc' = "done"

\* the caller takes the result
CleanReturn ==
    /\ cPc = "done"
    /\ cPc' = "idle"
    /\ cText' = <<>>
    /\ cOut' = <<>>

(***************************************************************************)
(* GameDatabaseSearchTool.  Texts are sequences of characters.             *)
(***************************************************************************)

KeywordLimit == 10
SampleLimit == 5
MinKeywordLength == 2

\* the largest number of entries in a generated dataset, and the largest
\* dataset of which every possible random sample is drawn
MaxGames == 11
MaxSampled == 6

\* s.strip() for a sequence of characters
RECURSIVE StripChars(_)
StripChars(s) ==
    IF s = <<>> THEN s
    ELSE IF Head(s) \in {" ", "\t"} THEN StripChars(Tail(s))
    ELSE IF s[Len(s)] \in {" ", "\t"} THEN StripChars(SubSeq(s, 1, Len(s) - 1))
    ELSE s

\* lines 73-79: splitting by each separator in turn splits at every separator;
\* "arabic_comma" is the character U+060C
Separators == {",", "arabic_comma", " ", "\t"}

RECURSIVE SplitAtSeparators(_)
SplitAtSeparators(s) ==
    IF \A i \in 1..Len(s) : s[i] \notin Separators THEN <<s>>
    ELSE LET i == FirstOf(s, Separators)
         IN  <<SubSeq(s, 1, i - 1)>> \o SplitAtSeparators(SubSeq(s, i + 1, Len(s)))

\* line 65; the last is the Hebrew word for random, letter by letter
RandomQueries ==
    { <<"r", "a", "n", "d", "o", "m">>, <<>>, <<"n", "o", "n", "e">>,
      <<"n", "u", "l", "l">>, <<"alef", "qof", "resh", "alef", "yod">> }

\* line 62
NormalizeQuery(query) == Lower(StripChars(query))

\* lines 73-82: the keywords of a normalized query, repetitions included
Keywords(query) ==
    LET pieces == SplitAtSeparators(query)
        kept == SelectSeq(pieces, LAMBDA kw : Len(StripChars(kw)) >= MinKeywordLength)
    IN  [i \in 1..Len(kept) |-> Lower(StripChars(kept[i]))]

\* " ".join(parts)
RECURSIVE JoinWithSpace(_)
JoinWithSpace(parts) ==
    IF parts = <<>> THEN <<>>
    ELSE IF Len(parts) = 1 THEN parts[1]
    ELSE parts[1] \o <<" ">> \o JoinWithSpace(Tail(parts))

\* lines 96-99
Searchable(game) ==
    JoinWithSpace(<<Lower(game.title), Lower(game.description),
                    Lower(JoinWithSpace(game.tags))>>)

\* a score that looks at the title only
ScoreTitleOnly(game, keywords) ==
    Cardinality({i \in 1..Len(keywords) : Contains(Lower(game.title), keywords[i])})

\* line 102: one for every element of the keyword list found in the text
Score(game, keywords) ==
    Cardinality({i \in 1..Len(keywords) : Contains(Searchable(game), keywords[i])})

\* lines 93-108: the positions of the entries with a positive score, sorted by
\* score, highest first; the sort is stable
RECURSIVE RankFrom(_, _, _)
RankFrom(data, keywords, score) ==
    IF score < 1 THEN <<>>
    ELSE FilterIdx([i \in 1..Len(data) |-> i],
                   {i \in 1..Len(data) : Score(data[i], keywords) = score}, 1)
         \o RankFrom(data, keywords, score - 1)

ScoredResults(data, keywords) == RankFrom(data, keywords, Len(keywords))

\* a top-N cut one entry too long
TopResultsOneMore(ranked) ==
    SubSeq(ranked, 1, IF Len(ranked) < KeywordLimit + 1 THEN Len(ranked) ELSE KeywordLimit + 1)

\* line 109: scored_results[:10]
TopResults(ranked) ==
    SubSeq(ranked, 1, IF Len(ranked) < KeywordLimit THEN Len(ranked) ELSE KeywordLimit)

\* min(5, len(self._games_data))
SampleSize(data) == IF Len(data) < SampleLimit THEN Len(data) ELSE SampleLimit

\* random.sample(population, k): every sequence of k distinct positions of S
RECURSIVE Samples(_, _)
Samples(S, k) ==
    IF k = 0 THEN { <<>> }
    ELSE UNION { { <<x>> \o rest : rest \in Samples(S \ {x}, k - 1) } : x \in S }

\* the JSON _run returns; games holds the positions in _games_data of the
\* entries listed
GameError == [kind |-> "error", message |-> "Game database not loaded",
              keywords |-> <<>>, games |-> <<>>]
GameList(message, keywords, games) ==
    [kind |-> "games", message |-> message, keywords |-> keywords, games |-> games]

\* a search without a match answered with an empty list
NoMatchResultEmpty(keywords, sample) == GameList("found", keywords, <<>>)

\* lines 111-118
NoMatchResult(keywords, sample) == GameList("none_found", keywords, sample)

\* does _run draw a random sample for this query
DrawsSample(data, query) ==
    /\ data # <<>>
    /\ \/ NormalizeQuery(query) \in RandomQueries
       \/ Keywords(NormalizeQuery(query)) = <<>>
       \/ ScoredResults(data, Keywords(NormalizeQuery(query))) = <<>>

\* _run: the result for a dataset, a query and the sample random.sample draws
GameRunResult(data, query, sample) ==
    IF data = <<>> THEN GameError
    ELSE IF NormalizeQuery(query) \in RandomQueries
        THEN GameList("random", <<>>, sample)
    ELSE LET keywords == Keywords(NormalizeQuery(query))
             results == TopResults(ScoredResults(data, keywords))
         IN  IF keywords = <<>> THEN GameList("no_keywords", <<>>, sample)
             ELSE IF results = <<>> THEN NoMatchResult(keywords, sample)
             ELSE GameList("found", keywords, results)

Word(a, b) == <<a, b>>
Game(title, description, tags) ==
    [title |-> title, description |-> description, tags |-> tags]

GameKinds ==
    << Game(Word("a", "b"), <<>>, <<>>),
       Game(Word("c", "d"), <<>>, <<>>),
       Game(Word("c", "d"), Word("a", "b"), << <<"x">> >>),
       Game(<<"A">>, <<"b">>, <<>>),
       Game(Word("A", "b"), Word("e", "e"), <<>>),
       Game(Word("e", "e"), <<>>, << <<"c">>, <<"d">> >>),
       Game(<<"r", "a", "n", "d", "o", "m">>, <<>>, <<>>) >>

SmallDatasets == SeqsUpTo({GameKinds[i] : i \in 1..Len(GameKinds)}, 3)

\* datasets above the two limits: every entry matches "ab", or the kinds in turn
LargeDatasets ==
    { [i \in 1..n |-> GameKinds[IF i % 2 = 0 THEN 1 ELSE 3]] : n \in {KeywordLimit, MaxGames} }
    \cup { [i \in 1..(SampleLimit + 1) |-> GameKinds[i]] }

Datasets == SmallDatasets \cup LargeDatasets

GameQueries ==
    { <<>>, <<" ">>, <<"r", "a", "n", "d", "o", "m">>, <<"n", "u", "l", "l">>,
      <<"x">>, <<"z", "z">>, Word("a", "b"), Word("A", "b"), Word("c", "d"),
      <<"a", "b", " ", "c", "d">>, <<"a", "b", ",", "a", "b">>,
      <<"a", "b", " ", "a", "b", " ", "c", "d">>,
      <<" ", "c", "d", ",", " ", "a", "b", "\t", "x">>,
      <<"c", "d", "arabic_comma", "z", "z">> }

InitGame ==
    /\ gPc = "new"
    /\ gData = <<>>
    /\ gQuery = <<>>
    /\ gResult = <<>>

\* __init__ and _load_db: the file holds a dataset, is missing, or does not load
GameLoad(outcome, data) ==
    /\ gPc = "new"
    /\ gData' = IF outcome = "loaded" THEN data ELSE <<>>
    /\ gPc' = "idle"
    /\ UNCHANGED <<gQuery, gResult>>

\* _run
GameRun(query, sample) ==
    /\ gPc = "idle"
    /\ gQuery' = query
    /\ gResult' = <<GameRunResult(gData, query, sample)>>
    /\ gPc' = "done"
    /\ UNCHANGED gData

\* the caller takes the result; the tool is ready for the next query
GameReturn ==
    /\ gPc = "done"
    /\ gPc' = "idle"
    /\ gQuery' = <<>>
    /\ gResult' = <<>>
    /\ UNCHANGED gData

GameLoadAny ==
    \E outcome \in {"loaded", "missing", "load_error"} :
        \E data \in (IF outcome = "loaded" THEN Datasets ELSE {<<>>}) :
            GameLoad(outcome, data)

\* the samples random.sample can draw: all of them for a dataset of up to
\* MaxSampled entries, the rotations in both directions for a larger one
SampleChoices(data) ==
    LET n == Len(data)
        k == SampleSize(data)
    IN  IF n <= MaxSampled THEN Samples(1..n, k)
        ELSE { [j \in 1..k |-> ((start + (j - 1) * step) % n) + 1] :
                 start \in 0..(n - 1), step \in {1, n - 1} }

GameRunAny ==
    /\ gPc = "idle"
    /\ \E query \in GameQueries :
          \E sample \in (IF DrawsSample(gData, query) THEN SampleChoices(gData) ELSE {<<>>}) :
              GameRun(query, sample)

(***************************************************************************)
(* extract_json_from_text.  A text is a sequence of characters: the braces,  *)
(* the brackets, the comma, the colon, "q" for the double quote, "sp" for a  *)
(* space, the letters, "1" for a number and "null" for the literal.          *)
(***************************************************************************)

\* the deepest nesting of a generated record
MaxNesting == 3

\* the Python values json.loads returns
PyNone == [type |-> "None"]
PyInt == [type |-> "int"]
PyStr(chars) == [type |-> "str", chars |-> chars]
PyList(items) == [type |-> "list", items |-> items]
PyDict(members) == [type |-> "dict", members |-> members]

\* a dict built from (key, value) pairs: a repeated key keeps its last value
DictOf(pairs) ==
    PyDict([k \in {pairs[i][1] : i \in 1..Len(pairs)} |->
              pairs[CHOOSE i \in 1..Len(pairs) :
                      /\ pairs[i][1] = k
                      /\ \A j \in (i + 1)..Len(pairs) : pairs[j][1] # k][2]])

RECURSIVE SkipSpace(_)
SkipSpace(s) == IF s # <<>> /\ Head(s) = "sp" THEN SkipSpace(Tail(s)) ELSE s

JsonFail == [ok |-> FALSE, value |-> PyNone, rest |-> <<>>]
JsonOk(value, rest) == [ok |-> TRUE, value |-> value, rest |-> rest]

\* the JSON decoder: a value at the start of s, and what follows it
RECURSIVE ParseValue(_), ParseMembers(_, _), ParseItems(_, _)
ParseValue(text) ==
    LET s == SkipSpace(text)
    IN  IF s = <<>> THEN JsonFail
        ELSE IF Head(s) = "1" THEN JsonOk(PyInt, Tail(s))
        ELSE IF Head(s) = "null" THEN JsonOk(PyNone, Tail(s))
        ELSE IF Head(s) = "q"
            THEN LET close == FirstOf(Tail(s), {"q"})
                 IN  IF close > Len(Tail(s)) THEN JsonFail
                     ELSE JsonOk(PyStr(SubSeq(Tail(s), 1, close - 1)),
                                 SubSeq(Tail(s), close + 1, Len(Tail(s))))
        ELSE IF Head(s) = "{"
            THEN IF SkipSpace(Tail(s)) # <<>> /\ Head(SkipSpace(Tail(s))) = "}"
                 THEN JsonOk(DictOf(<<>>), Tail(SkipSpace(Tail(s))))
                 ELSE ParseMembers(Tail(s), <<>>)
        ELSE IF Head(s) = "["
            THEN IF SkipSpace(Tail(s)) # <<>> /\ Head(SkipSpace(Tail(s))) = "]"
                 THEN JsonOk(PyList(<<>>), Tail(SkipSpace(Tail(s))))
                 ELSE ParseItems(Tail(s), <<>>)
        ELSE JsonFail

\* the members of an object after "{" or ",": "key": value, then "," or "}"
ParseMembers(text, pairs) ==
    LET key == ParseValue(text)
        colon == SkipSpace(key.rest)
        member == ParseValue(Tail(colon))
        after == SkipSpace(member.rest)
    IN  IF ~key.ok \/ key.value.type # "str" THEN JsonFail
        ELSE IF colon = <<>> \/ Head(colon) # ":" THEN JsonFail
        ELSE IF ~member.ok \/ after = <<>> THEN JsonFail
        ELSE IF Head(after) = "}"
            THEN JsonOk(DictOf(Append(pairs, <<key.value.chars, member.value>>)), Tail(after))
        ELSE IF Head(after) = ","
            THEN ParseMembers(Tail(after), Append(pairs, <<key.value.chars, member.value>>))
        ELSE JsonFail

\* the items of an array after "[" or ",": value, then "," or "]"
ParseItems(text, items) ==
    LET item == ParseValue(text)
        after == SkipSpace(item.rest)
    IN  IF ~item.ok \/ after = <<>> THEN JsonFail
        ELSE IF Head(after) = "]" THEN JsonOk(PyList(Append(items, item.value)), Tail(after))
        ELSE IF Head(after) = "," THEN ParseItems(Tail(after), Append(items, item.value))
        ELSE JsonFail

\* json.loads(text): ok is FALSE when it raises json.JSONDecodeError
JsonLoads(text) ==
    LET parsed == ParseValue(text)
    IN  IF parsed.ok /\ SkipSpace(parsed.rest) = <<>> THEN parsed ELSE JsonFail

\* the pattern of line 38 tried at position i: the position of the closing
\* brace of the match, or 0 when the pattern does not match there
RECURSIVE MatchEnd(_, _)
MatchEnd(text, j) ==
    IF j > Len(text) THEN 0
    ELSE IF text[j] = "}" THEN j
    ELSE IF text[j] = "{"
        THEN LET k == j + FirstOf(SubSeq(text, j + 1, Len(text)), {"{", "}"})
             IN  IF k <= Len(text) /\ text[k] = "}" THEN MatchEnd(text, k + 1) ELSE 0
    ELSE MatchEnd(text, j + 1)

\* re.finditer: the matches from position pos on, leftmost first, none overlapping
RECURSIVE FindMatches(_, _)
FindMatches(text, pos) ==
    IF pos > Len(text) THEN <<>>
    ELSE IF text[pos] = "{" /\ MatchEnd(text, pos + 1) # 0
        THEN <<SubSeq(text, pos, MatchEnd(text, pos + 1))>>
                \o FindMatches(text, MatchEnd(text, pos + 1) + 1)
    ELSE FindMatches(text, pos + 1)

\* lines 41-52: the first match that json.loads accepts, or None
RECURSIVE FirstParsed(_)
FirstParsed(matches) ==
    IF matches = <<>> THEN PyNone
    ELSE IF JsonLoads(Head(matches)).ok THEN JsonLoads(Head(matches)).value
    ELSE FirstParsed(Tail(matches))

\* the pattern tried before the parse of the whole text
ExtractJsonPatternFirst(text) ==
    IF text = <<>> \/ SkipSpace(text) = <<>> THEN PyNone
    ELSE IF FirstParsed(FindMatches(text, 1)) # PyNone
        THEN FirstParsed(FindMatches(text, 1))
    ELSE JsonLoads(text).value

\* extract_json_from_text
ExtractJson(text) ==
    IF text = <<>> \/ SkipSpace(text) = <<>> THEN PyNone
    ELSE IF JsonLoads(text).ok THEN JsonLoads(text).value
    ELSE FirstParsed(FindMatches(text, 1))

\* "x": v
Member(x, v) == <<"q", x, "q", ":">> \o v

\* {"a": {"a": ... {"b": 1}}} with n objects
RECURSIVE Nested(_)
Nested(n) ==
    IF n <= 1 THEN <<"{">> \o Member("b", <<"1">>) \o <<"}">>
    ELSE <<"{">> \o Member("a", Nested(n - 1)) \o <<"}">>

JsonRecords ==
    { Nested(n) : n \in 1..MaxNesting }
    \cup { <<"{", "}">>,
           <<"{">> \o Member("a", <<"q", "}", "q">>) \o <<"}">>,
           <<"{">> \o Member("a", <<"1">>) \o <<",">> \o Member("a", <<"null">>) \o <<"}">>,
           <<"{", "sp">> \o Member("a", <<"[", "1", ",">> \o Nested(1) \o <<"]">>) \o <<"sp", "}">> }

JsonOthers ==
    { <<"1">>, <<"null">>, <<"q", "a", "q">>, <<"[", "1", "]">>,
      <<"[">> \o Nested(1) \o <<"]">> }

NotJson ==
    { <<"a">>, <<"{", "a", "}">>, <<"{">> \o Member("a", <<"1">>),
      <<"{">> \o Member("a", <<"1">>) \o <<",", "}">>, <<"}", "{">>,
      <<"{", "a", "sp">> \o Nested(1) \o <<"}">>,
      <<"{", "a", "}", "sp">> \o Nested(2),
      Nested(1) \o <<"sp">> \o Nested(2),
      <<"{", "{", "a", "}", "{", "}", "}", "sp">> \o Nested(1) }

JsonTexts ==
    { <<>>, <<"sp">>, <<"sp", "sp">> }
    \cup { prefix \o body \o suffix :
             prefix \in { <<>>, <<"sp">>, <<"a", "sp">>, <<"a", ":", "sp", "q">> },
             body \in JsonRecords \cup JsonOthers \cup NotJson,
             suffix \in { <<>>, <<"sp">>, <<"q", "sp", "a">> } }

InitJson ==
    /\ xPc = "idle"
    /\ xText = <<>>
    /\ xResult = PyNone

ExtractCall(text) ==
    /\ xPc = "idle"
    /\ xText' = text
    /\ xResult' = ExtractJson(text)
    /\ xPc' = "done"

\* the caller takes the result
ExtractReturn ==
    /\ xPc = "done"
    /\ xPc' = "idle"
    /\ xText' = <<>>
    /\ xResult' = PyNone

ExtractCallAny == xPc = "idle" /\ \E text \in JsonTexts : ExtractCall(text)

(***************************************************************************)
(* ActivitySection and ActivityReport.  Strings are sequences of           *)
(* characters; the fields left out (summary, activity_details and the      *)
(* optional ones but story_processing) are given valid.                    *)
(***************************************************************************)

\* the most sections a report is given
MaxSections == 4

\* Field(ge=1) of duration_minutes and of total_duration_minutes
MinDuration == 1

\* Field(min_length=3, max_length=3) of sections
MinSections == 3
MaxSectionsAllowed == 3

\* validate_non_empty and validate_title: `not v or not v.strip()` raises
NonEmpty(v) == v # <<>> /\ StripChars(v) # <<>>

\* Field(min_length=3) of guiding_questions
MinQuestions == 3

\* model_post_init line 347: the tolerance in minutes
DurationTolerance == 5

\* StoryProcessing(...) raises no ValidationError; the two texts are any str
StoryProcessingAccepted(block) ==
    Len(block.guiding_questions) >= MinQuestions

\* ActivitySection(...) raises no ValidationError; section_type is any str,
\* story_processing is None (<<>>) or a StoryProcessing
SectionAccepted(section) ==
    /\ NonEmpty(section.section_name)
    /\ NonEmpty(section.description)
    /\ NonEmpty(section.instructions)
    /\ section.duration_minutes >= MinDuration
    /\ section.story_processing # <<>>
          => StoryProcessingAccepted(section.story_processing[1])

\* sum(section.duration_minutes for section in self.sections)
RECURSIVE SectionTotal(_)
SectionTotal(sections) ==
    IF sections = <<>> THEN 0
    ELSE Head(sections).duration_minutes + SectionTotal(Tail(sections))

Abs(n) == IF n < 0 THEN 0 - n ELSE n

\* a warning from a difference of the tolerance itself
DurationMismatchFromTolerance(report) ==
    Abs(report.total_duration_minutes - SectionTotal(report.sections)) >= DurationTolerance

\* model_post_init: the condition of the warning
DurationMismatch(report) ==
    Abs(report.total_duration_minutes - SectionTotal(report.sections)) > DurationTolerance

\* ActivityReport(...) raises no ValidationError
ReportAccepted(report) ==
    /\ NonEmpty(report.title)
    /\ Len(report.sections) >= MinSections
    /\ Len(report.sections) <= MaxSectionsAllowed
    /\ \A i \in 1..Len(report.sections) : SectionAccepted(report.sections[i])
    /\ report.sections # <<>>
    /\ report.total_duration_minutes >= MinDuration

Block(questions) ==
    [guiding_questions |-> [i \in 1..questions |-> <<"q">>],
     connection_to_topic |-> <<"c">>, discussion_instructions |-> <<"i">>]

Section(type, name, minutes, block) ==
    [section_type |-> type, section_name |-> name, description |-> <<"d">>,
     instructions |-> <<"i">>, duration_minutes |-> minutes, story_processing |-> block]

PlainSections ==
    { Section(type, <<"n">>, 10, <<>>) :
        type \in {"story", "story_processing", "game", "activity", "discussion"} }

Sections ==
    PlainSections
    \cup { Section("story", <<" ">>, 10, <<>>), Section("game", <<"n">>, 0, <<>>),
           Section("story", <<"n">>, 21, <<>>), Section("game", <<"n">>, 21, <<>>) }
    \cup { Section("story_processing", <<"n">>, 10, <<Block(2)>>),
           Section("story_processing", <<"n">>, 10, <<Block(3)>>),
           Section("game", <<"n">>, 10, <<Block(3)>>) }

Messages == { <<>>, <<" ">>, <<" ", "\t">>, <<"m">> }

Report(title, message, sections, total) ==
    [title |-> title, central_message |-> message, sections |-> sections,
     total_duration_minutes |-> total]

\* reports of any number of plain sections, and reports of three sections
\* of any kind with any title, message and total
Reports ==
    { Report(<<"t">>, <<"m">>, sections, 30) :
        sections \in SeqsUpTo(PlainSections, MaxSections) }
    \cup { Report(title, <<"m">>, sections, total) :
             title \in { <<"t">>, <<" ">> },
             sections \in [1..3 -> Sections],
             total \in {0, 30, 45} }
    \cup { Report(<<"t">>, message, sections, total) :
             message \in Messages,
             sections \in [1..3 -> PlainSections],
             total \in {0, 24, 25, 30, 35, 36} }

InitReport ==
    /\ pReport = <<>>
    /\ pOutcome = "none"
    /\ pWarned = FALSE

\* ActivityReport(**data)
ReportValidate(report) ==
    /\ pOutcome = "none"
    /\ pReport' = report
    /\ pOutcome' = IF ReportAccepted(report) THEN "accepted" ELSE "ValidationError"
    /\ pWarned' = (ReportAccepted(report) /\ DurationMismatch(report))

\* the caller takes the report or the error
ReportReturn ==
    /\ pOutcome # "none"
    /\ pReport' = <<>>
    /\ pOutcome' = "none"
    /\ pWarned' = FALSE

(***************************************************************************)
(* ActivityDetails.main_values; the other fields are given valid.          *)
(***************************************************************************)

\* the most values a request is given
MaxValues == 3

\* Field(min_length=1) of main_values
MinValues == 1

\* the values that are not blank, kept as they are
FilteredValuesUntrimmed(v) ==
    SelectSeq(v, LAMBDA val : val # <<>> /\ StripChars(val) # <<>>)

\* validate_main_values line 118: [val.strip() for val in v if val and val.strip()]
FilteredValues(v) ==
    LET kept == SelectSeq(v, LAMBDA val : val # <<>> /\ StripChars(val) # <<>>)
    IN  [i \in 1..Len(kept) |-> StripChars(kept[i])]

\* what ActivityDetails(main_values=v, ...) stores, or the rejection
ValidateMainValues(v) ==
    IF Len(v) < MinValues \/ v = <<>> THEN [outcome |-> "ValidationError", stored |-> <<>>]
    ELSE IF FilteredValues(v) = <<>> THEN [outcome |-> "ValidationError", stored |-> <<>>]
    ELSE [outcome |-> "accepted", stored |-> FilteredValues(v)]

ValueTexts == { <<>>, <<" ">>, <<"v">>, <<" ", "v", "\t">>, <<"v", " ", "w">> }

InitDetails ==
    /\ dValues = <<>>
    /\ dOutcome = "none"
    /\ dStored = <<>>

\* ActivityDetails(**data)
DetailsValidate(v) ==
    /\ dOutcome = "none"
    /\ dValues' = v
    /\ dOutcome' = ValidateMainValues(v).outcome
    /\ dStored' = ValidateMainValues(v).stored

\* the caller takes the details or the error
DetailsReturn ==
    /\ dOutcome # "none"
    /\ dValues' = <<>>
    /\ dOutcome' = "none"
    /\ dStored' = <<>>

(***************************************************************************)
(* AgadahWordPressSearchTool._clean_html on texts of words, spaces and     *)
(* the characters < > & ;                                                  *)
(***************************************************************************)

\* the longest excerpt given to _clean_html, in tokens
MaxHtmlLen == 4

\* line 178: the longest excerpt kept whole
ExcerptLimit == 500

Lt == [t |-> "<", n |-> 1]
Gt == [t |-> ">", n |-> 1]
Amp == [t |-> "&", n |-> 1]
Semi == [t |-> ";", n |-> 1]
\* "..."
Dots == [t |-> "...", n |-> 3]

\* re.sub of open [^close]+ close by repl: the matches are taken from left
\* to right; a match ends at the first close after its open and holds at
\* least one character between them
RECURSIVE SubPattern(_, _, _, _)
SubPattern(s, open, close, repl) ==
    IF s = <<>> THEN <<>>
    ELSE LET ends == { j \in 2..Len(s) : s[j] = close }
             end == IF ends = {} THEN 0
                    ELSE CHOOSE j \in ends : \A k \in ends : j <= k
         IN  IF Head(s) = open /\ end >= 3
             THEN repl \o SubPattern(SubSeq(s, end + 1, Len(s)), open, close, repl)
             ELSE <<Head(s)>> \o SubPattern(Tail(s), open, close, repl)

\* ' '.join(clean.split())
JoinSplit(s) ==
    StripLine(CollapseSpaces([i \in 1..Len(s) |-> IF s[i] \in {Nl, Tab} THEN Sp ELSE s[i]]))

\* lines 178-180
CutExcerpt(clean) ==
    StripLine(IF TextLen(clean) > ExcerptLimit
              THEN TakeChars(clean, ExcerptLimit) \o <<Dots>>
              ELSE clean)

\* the entities left in place
CleanHtmlTagsOnly(html_text) ==
    CutExcerpt(JoinSplit(SubPattern(html_text, Lt, Gt, <<>>)))

\* _clean_html
CleanHtml(html_text) ==
    CutExcerpt(JoinSplit(SubPattern(SubPattern(html_text, Lt, Gt, <<>>), Amp, Semi, <<Sp>>)))

HtmlTexts == SeqsUpTo({Lt, Gt, Amp, Semi, Sp, W(1), W(499)}, MaxHtmlLen)

InitHtml ==
    /\ hPc = "idle"
    /\ hRaw = <<>>
    /\ hOut = <<>>

\* _run line 117: self._clean_html(excerpt_raw) if excerpt_raw else ""
CleanHtmlCall(excerpt_raw) ==
    /\ hPc = "idle"
    /\ hRaw' = excerpt_raw
    /\ hOut' = IF excerpt_raw # <<>> THEN CleanHtml(excerpt_raw) ELSE <<>>
    /\ hPc' = "done"

\* the excerpt goes into the result
CleanHtmlReturn ==
    /\ hPc = "done"
    /\ hPc' = "idle"
    /\ hRaw' = <<>>
    /\ hOut' = <<>>

(***************************************************************************)
(* Specifications                                                          *)
(***************************************************************************)

Init ==
    /\ InitFetch /\ InitSearch /\ InitValidator /\ InitLogger /\ InitGame /\ InitJson
    /\ InitRecorder /\ InitClean /\ InitReport
    /\ InitDetails /\ InitHtml

NextFetch ==
    \/ FetchCallAny /\ UNCHANGED <<searchVars, validatorVars, loggerVars, restVars>>
    \/ FetchAttemptAny /\ UNCHANGED <<searchVars, validatorVars, loggerVars, restVars>>
    \/ FetchProcess /\ UNCHANGED <<searchVars, validatorVars, loggerVars, restVars>>
    \/ FetchReturn /\ UNCHANGED <<searchVars, validatorVars, loggerVars, restVars>>

NextSearch ==
    \/ SearchCallAny /\ UNCHANGED <<fetchVars, validatorVars, loggerVars, restVars>>
    \/ SearchAttemptAny /\ UNCHANGED <<fetchVars, validatorVars, loggerVars, restVars>>
    \/ SearchItemAny /\ UNCHANGED <<fetchVars, validatorVars, loggerVars, restVars>>
    \/ SearchReturn /\ UNCHANGED <<fetchVars, validatorVars, loggerVars, restVars>>

NextValidator ==
    \/ ValidateStoryUrlAny /\ UNCHANGED <<fetchVars, searchVars, loggerVars, restVars>>
    \/ ValidatorReturn /\ UNCHANGED <<fetchVars, searchVars, loggerVars, restVars>>

NextLogger ==
    \/ RunEnterAny /\ UNCHANGED <<toolVars, restVars>>
    \/ BodyLogErrorAny /\ UNCHANGED <<toolVars, restVars>>
    \/ BodyLogOutputAny /\ UNCHANGED <<toolVars, restVars>>
    \/ RunExitAny /\ UNCHANGED <<toolVars, restVars>>
    \/ Tick /\ UNCHANGED <<toolVars, restVars>>

\* the game database tool
NextGames ==
    \/ GameLoadAny /\ UNCHANGED <<toolVars, loggerVars, jsonVars, moreVars, lastVars>>
    \/ GameRunAny /\ UNCHANGED <<toolVars, loggerVars, jsonVars, moreVars, lastVars>>
    \/ GameReturn /\ UNCHANGED <<toolVars, loggerVars, jsonVars, moreVars, lastVars>>

\* one recorder and its callers
NextRecorder ==
    \/ RecorderLogAgentStart("agent", "task")
          /\ UNCHANGED <<toolVars, gameVars, jsonVars, cleanVars, reportVars, lastVars>>
    \/ (\E i \in AgentIndexes : RecorderLogAgentEnd(i, "out"))
          /\ UNCHANGED <<toolVars, gameVars, jsonVars, cleanVars, reportVars, lastVars>>
    \/ (\E i \in AgentIndexes : \E model \in {"m1", "m2"} : RecorderLogLlmCall(i, model, 1, 2))
          /\ UNCHANGED <<toolVars, gameVars, jsonVars, cleanVars, reportVars, lastVars>>
    \/ (\E i \in AgentIndexes : \E n \in ResultLengths : RecorderLogToolCall(i, "tool", n))
          /\ UNCHANGED <<toolVars, gameVars, jsonVars, cleanVars, reportVars, lastVars>>
    \/ RecorderLogError("late") /\ UNCHANGED <<toolVars, gameVars, jsonVars, cleanVars, reportVars, lastVars>>
    \/ RecorderLogOutput("output") /\ UNCHANGED <<toolVars, gameVars, jsonVars, cleanVars, reportVars, lastVars>>
    \/ RecorderFinalize /\ UNCHANGED <<toolVars, gameVars, jsonVars, cleanVars, reportVars, lastVars>>
    \/ Tick /\ UNCHANGED <<toolVars, gameVars, jsonVars, moreVars, lastVars>>

\* the whitespace normalizer
NextClean ==
    \/ (cPc = "idle" /\ \E text \in RawTexts : CleanCall(text))
          /\ UNCHANGED <<toolVars, loggerVars, gameVars, jsonVars, recorderVars, reportVars, lastVars>>
    \/ CleanReturn /\ UNCHANGED <<toolVars, loggerVars, gameVars, jsonVars, recorderVars, reportVars, lastVars>>

\* the validation of a report
NextReport ==
    \/ (pOutcome = "none" /\ \E report \in Reports : ReportValidate(report))
          /\ UNCHANGED <<toolVars, loggerVars, gameVars, jsonVars, recorderVars, cleanVars, lastVars>>
    \/ ReportReturn
          /\ UNCHANGED <<toolVars, loggerVars, gameVars, jsonVars, recorderVars, cleanVars, lastVars>>

\* the validation of a request
NextDetails ==
    \/ (dOutcome = "none" /\ \E v \in SeqsUpTo(ValueTexts, MaxValues) : DetailsValidate(v))
          /\ UNCHANGED <<toolVars, loggerVars, gameVars, jsonVars, moreVars, htmlVars>>
    \/ DetailsReturn /\ UNCHANGED <<toolVars, loggerVars, gameVars, jsonVars, moreVars, htmlVars>>

\* the cleaning of an excerpt
NextHtml ==
    \/ (hPc = "idle" /\ \E excerpt_raw \in HtmlTexts : CleanHtmlCall(excerpt_raw))
          /\ UNCHANGED <<toolVars, loggerVars, gameVars, jsonVars, moreVars, detailsVars>>
    \/ CleanHtmlReturn
          /\ UNCHANGED <<toolVars, loggerVars, gameVars, jsonVars, moreVars, detailsVars>>

\* the recovery of a structured response
NextJson ==
    \/ ExtractCallAny /\ UNCHANGED <<toolVars, loggerVars, gameVars, moreVars, lastVars>>
    \/ ExtractReturn /\ UNCHANGED <<toolVars, loggerVars, gameVars, moreVars, lastVars>>

Next ==
    \/ NextFetch \/ NextSearch \/ NextValidator \/ NextLogger \/ NextGames \/ NextJson
    \/ NextRecorder \/ NextClean \/ NextReport
    \/ NextDetails \/ NextHtml

\* every tool, every validation and every run at once
Spec == Init /\ [][Next]_vars

\* the tools as the agent uses them: one call at a time
FetchTurn == sPc = "idle" /\ vResult = "none"
SearchTurn == fPc = "idle" /\ vResult = "none"
ValidatorTurn == fPc = "idle" /\ sPc = "idle"

NextTools ==
    \/ FetchTurn /\ FetchCallAny /\ UNCHANGED <<searchVars, validatorVars, loggerVars, restVars>>
    \/ FetchTurn /\ FetchAttemptAny /\ UNCHANGED <<searchVars, validatorVars, loggerVars, restVars>>
    \/ FetchTurn /\ FetchProcess /\ UNCHANGED <<searchVars, validatorVars, loggerVars, restVars>>
    \/ FetchTurn /\ FetchReturn /\ UNCHANGED <<searchVars, validatorVars, loggerVars, restVars>>
    \/ SearchTurn /\ SearchCallAny /\ UNCHANGED <<fetchVars, validatorVars, loggerVars, restVars>>
    \/ SearchTurn /\ SearchAttemptAny /\ UNCHANGED <<fetchVars, validatorVars, loggerVars, restVars>>
    \/ SearchTurn /\ SearchItemAny /\ UNCHANGED <<fetchVars, validatorVars, loggerVars, restVars>>
    \/ SearchTurn /\ SearchReturn /\ UNCHANGED <<fetchVars, validatorVars, loggerVars, restVars>>
    \/ ValidatorTurn /\ ValidateStoryUrlAny /\ UNCHANGED <<fetchVars, searchVars, loggerVars, restVars>>
    \/ ValidatorTurn /\ ValidatorReturn /\ UNCHANGED <<fetchVars, searchVars, loggerVars, restVars>>

SpecTools == Init /\ [][NextTools]_vars

\* the runs and their recorders
SpecLogger == Init /\ [][NextLogger]_vars

SpecGames == Init /\ [][NextGames]_vars

SpecJson == Init /\ [][NextJson]_vars

SpecRecorder == Init /\ [][NextRecorder]_vars

SpecClean == Init /\ [][NextClean]_vars

SpecReport == Init /\ [][NextReport]_vars

SpecDetails == Init /\ [][NextDetails]_vars

SpecHtml == Init /\ [][NextHtml]_vars

(***************************************************************************)
(* Properties                                                              *)
(***************************************************************************)

\* the run went through run_logger with a recorder and has left the with block
RunFinalized(r) == runs[r].pc = "exited" /\ runs[r].has_logger

\* the error log of run r holds the record run_logger writes for the exception
\* that ended the run
TriggerRecorded(r) ==
    \E i \in 1..Len(runs[r].run_data.errors) :
        /\ runs[r].run_data.errors[i].message = "Run failed with exception"
        /\ runs[r].run_data.errors[i].exception = <<ExceptionText(runs[r].exit)>>

\* finalize has run exactly once, and has set the end time and the duration
FinalizedOnce(r) ==
    /\ runs[r].finalize_calls = 1
    /\ runs[r].run_data.end_time # <<>>
    /\ runs[r].run_data.duration_seconds # <<>>

\* C1 as claimed: with detailed logging enabled, finalize runs exactly once on
\* every exit of the with block, and whenever the run exits by an exception the
\* finalized trace has an end time, a duration and a record of that exception.
C1_ErrorRecordedOnEveryException ==
    \A r \in RunIds :
        /\ runs[r].pc # "exited" => runs[r].finalize_calls = 0
        /\ RunFinalized(r) => FinalizedOnce(r)
        /\ RunFinalized(r) /\ runs[r].exit \in {"Exception", "BaseException"}
              => TriggerRecorded(r)

\* C1 amended: finalize runs exactly once on every exit of the with block and
\* sets the end time and the duration; the exception is recorded when it is an
\* Exception, the class run_logger catches.
C1_FinalizedOnceOnEveryExit ==
    \A r \in RunIds :
        /\ runs[r].pc # "exited" => runs[r].finalize_calls = 0
        /\ RunFinalized(r) => FinalizedOnce(r)
        /\ RunFinalized(r) /\ runs[r].exit = "Exception" => TriggerRecorded(r)

C1_Witness ==
    \E r \in RunIds :
        /\ RunFinalized(r)
        /\ runs[r].exit = "Exception"
        /\ FinalizedOnce(r)
        /\ TriggerRecorded(r)

\* C2: a search issues at most 3 GET requests and a fetch at most 2; no request
\* follows a successful one; when the last allowed attempt has failed the call
\* has returned an error.
C2_BoundedAttempts ==
    /\ Len(sNet) <= 3
    /\ Len(fNet) <= 2
    /\ \A i \in 1..(Len(sNet) - 1) : sNet[i].outcome # "ok"
    /\ \A i \in 1..(Len(fNet) - 1) : fNet[i].outcome # "ok"
    /\ Len(sNet) = 3 /\ sNet[3].outcome # "ok"
          => sPc = "done" /\ sResult # <<>> /\ sResult[1].kind = "error"
    /\ Len(fNet) = 2 /\ fNet[2].outcome # "ok"
          => fPc = "done" /\ fResult # <<>> /\ "error" \in fResult[1].keys

C2_Witness ==
    /\ fPc = "done"
    /\ Len(fNet) = 2
    /\ fNet[1].outcome = "connection_error"
    /\ fNet[2].outcome = "timeout"
    /\ "error" \in fResult[1].keys

\* C3 as claimed: a request answered with a 4xx or 5xx status is not repeated,
\* and the call does not turn that answer into a network error.
C3_NoRetryOnHttpError ==
    /\ \A i \in 1..Len(fNet) :
          fNet[i].outcome = "http_error"
             => /\ i = Len(fNet)
                /\ fPc # "attempt"
                /\ fResult # <<>> => fResult[1].status # "network_error"
    /\ \A i \in 1..Len(sNet) :
          sNet[i].outcome = "http_error"
             => /\ i = Len(sNet)
                /\ sPc # "attempt"
                /\ sResult # <<>> => sResult[1] # SearchNoResponse

\* the URL, as fetch reads it, fails one of the checks made before the request
RejectableUrl(raw) ==
    LET url == Unquote(Strip(raw))
    IN  \/ url = <<>>
        \/ ~(StartsWith(url, HttpPrefix) \/ StartsWith(url, HttpsPrefix))
        \/ ~Contains(url, TrustedDomain)
        \/ \E word \in {"category", "tag", "author", "page", "feed"} :
              Contains(Lower(url), <<"/", word, "/">>)
        \/ RStripChunk(url, "/") \in {HttpsPrefix \o TrustedDomain,
                                      HttpPrefix \o TrustedDomain}

\* C4: a fetch of an empty URL, of one without http/https scheme, without the
\* trusted domain, with a non-story path pattern or of the bare domain root has
\* returned an error and issued no request; search issues no HEAD request for
\* a link without the trusted domain.
C4_RejectedWithoutRequest ==
    /\ fPc # "idle" /\ RejectableUrl(fRaw)
          => /\ fNet = <<>>
             /\ fPc = "done"
             /\ "error" \in fResult[1].keys
    /\ \A i \in 1..Len(sItemLog) :
          ~Contains(Unquote(Strip(sItemLog[i].link)), TrustedDomain)
             => sItemLog[i].head = NoHead /\ ~sItemLog[i].appended

C4_Witness ==
    /\ fPc = "done"
    /\ fRaw = HttpsPrefix \o EvilHost \o StoryPath
    /\ fNet = <<>>
    /\ "error" \in fResult[1].keys
    /\ fResult[1].error = "URL must be from agadah.org.il"

\* C5: a raw result with a valid trusted-domain link is dropped when the HEAD
\* confirmation answers 404 or any status >= 400 and is kept when the HEAD
\* request fails with a network error or a timeout; the list returned is the
\* list of the results kept.
C5_HeadConfirmation ==
    /\ \A i \in 1..Len(sItemLog) :
          LinkPassesChecks(sItemLog[i].link) /\ sItemLog[i].shape = "ok"
             => /\ sItemLog[i].head.kind = "status" /\ sItemLog[i].head.code >= 400
                     => ~sItemLog[i].appended
                /\ sItemLog[i].head.kind \in {"timeout", "connection_error"}
                     => sItemLog[i].appended
    /\ Len(sFormatted) = Cardinality({i \in 1..Len(sItemLog) : sItemLog[i].appended})
    /\ sPc = "done" /\ sItemLog # <<>> => sResult[1] = SearchList(sFormatted)

C5_Witness ==
    /\ sPc = "done"
    /\ Len(sItemLog) = 2
    /\ sItemLog[1].link = TrustedLink
    /\ sItemLog[1].head = StatusOf(404)
    /\ sItemLog[2].link = TrustedLink
    /\ sItemLog[2].head.kind = "timeout"
    /\ Len(sResult[1].results) = 1

\* C6: when every attempt of the index call has failed, search has returned an
\* error with no candidates.
C6_TotalFailureIsAnError ==
    Len(sNet) = 3 /\ (\A i \in 1..3 : sNet[i].outcome # "ok")
       => /\ sPc = "done"
          /\ sResult # <<>>
          /\ sResult[1].kind = "error"
          /\ sResult[1].error # ""
          /\ sResult[1].results = <<>>

C6_Witness ==
    /\ sPc = "done"
    /\ Len(sNet) = 3
    /\ \A i \in 1..3 : sNet[i].outcome = "http_error"
    /\ sResult[1].kind = "error"

\* the host named by a URL: the netloc after any user information, lower-cased
HostOf(url) ==
    LET netloc == UrlParse(url).netloc
        ats == {i \in 1..Len(netloc) : netloc[i] = "@"}
        from == IF ats = {} THEN 1 ELSE 1 + CHOOSE i \in ats : \A j \in ats : j <= i
    IN  Lower(SubSeq(netloc, from, Len(netloc)))

\* the host is the trusted domain or one of its subdomains
OnTrustedHost(url) ==
    LET host == HostOf(url)
    IN  \/ host = TrustedDomain
        \/ /\ Len(host) > 4
           /\ SubSeq(host, Len(host) - 3, Len(host)) = <<".">> \o TrustedDomain

\* C7 as claimed: every URL that passes the fetch preconditions, the search
\* link validation or the StoryReference validator has the trusted domain as
\* its host.
C7_AcceptedOnlyOnTrustedHost ==
    /\ fPc \in {"attempt", "process"} => OnTrustedHost(fUrl)
    /\ \A i \in 1..Len(sItemLog) :
          sItemLog[i].appended => OnTrustedHost(Unquote(Strip(sItemLog[i].link)))
    /\ vResult = "accepted" => OnTrustedHost(Strip(vUrl))

\* the call received a document and has returned what processing it gave
FetchProcessed ==
    /\ fPc = "done"
    /\ fNet # <<>>
    /\ fNet[Len(fNet)].outcome = "ok"
    /\ fResponse[1].parse_ok

\* the normalized content of the document received
FetchedContent == CleanText(ExtractContent(fResponse[1]))

\* the classification an error result of fetch conveys: its status when it has
\* one (timeout_error and network_error read as timeout and network), else the
\* kind of rejection its keys and its message identify, else none
ClassificationOf(result) ==
    IF "status" \in result.keys
    THEN CASE result.status = "timeout_error" -> "timeout"
           [] result.status = "network_error" -> "network"
           [] OTHER -> result.status
    ELSE IF "link_count" \in result.keys THEN "too_many_links"
    ELSE IF "navigation_indicators" \in result.keys THEN "navigation_page"
    ELSE IF result.error \in {"Content too short",
                              "Content too short with navigation elements"}
        THEN "too_short"
    ELSE "none"

\* C8: a document whose normalized content has more than 10 links is rejected
\* as having too many links by the link-density check, the first of the checks,
\* whatever its length and its navigation phrases; one with exactly 10 links
\* is not.
C8_LinkDensityFirst ==
    FetchProcessed
       => /\ LinkCount(FetchedContent) > 10
               => /\ "error" \in fResult[1].keys
                  /\ ClassificationOf(fResult[1]) = "too_many_links"
                  /\ fResult[1].error = "Content contains too many links"
                  /\ fResult[1].link_count = LinkCount(FetchedContent)
          /\ LinkCount(FetchedContent) <= 10
               => /\ ClassificationOf(fResult[1]) # "too_many_links"
                  /\ fResult[1].error # "Content contains too many links"

C8_Witness ==
    /\ FetchProcessed
    /\ LinkCount(FetchedContent) = 11
    /\ TextLen(FetchedContent) > 150
    /\ StrongNavScore(FetchedContent) >= 2
    /\ ClassificationOf(fResult[1]) = "too_many_links"

\* C9: fetch returns a success only for normalized content of at least 150
\* characters; shorter content, the empty one included, gives an error.
C9_SuccessNeedsMinimumLength ==
    /\ fPc = "done" /\ fResult[1].status = "success"
          => FetchProcessed /\ TextLen(FetchedContent) >= 150
    /\ FetchProcessed /\ TextLen(FetchedContent) < 150
          => "error" \in fResult[1].keys /\ "content" \notin fResult[1].keys

C9_Witness ==
    /\ FetchProcessed
    /\ TextLen(FetchedContent) = 149
    /\ LinkCount(FetchedContent) = 0
    /\ StrongNavScore(FetchedContent) = 0
    /\ fResult[1].error = "Content too short"

Classifications ==
    {"timeout", "network", "invalid_url_type", "homepage", "too_many_links",
     "navigation_page", "too_short", "processing_error"}

\* C10 as claimed: every error result of fetch carries a classification, one
\* of the eight listed.
C10_EveryErrorClassified ==
    fPc = "done" /\ "error" \in fResult[1].keys
       => ClassificationOf(fResult[1]) \in Classifications

\* the query ended in a list of games with the given message
GameListed(message) ==
    /\ gPc = "done"
    /\ gResult[1].kind = "games"
    /\ gResult[1].message = message

\* C11: the index lists at most 10 entries on the keyword path and at most 5
\* on the random and fallback paths, never more entries than the dataset
\* holds, and no entry of the dataset twice.
C11_ResultSizeBounded ==
    gPc = "done"
       => LET games == gResult[1].games
          IN  /\ GameListed("found") => Len(games) <= 10
              /\ gResult[1].message # "found" => Len(games) <= 5
              /\ Len(games) <= Len(gData)
              /\ \A i \in 1..Len(games) : games[i] \in 1..Len(gData)
              /\ \A i, j \in 1..Len(games) : games[i] = games[j] => i = j

C11_Witness ==
    /\ GameListed("found")
    /\ Len(gData) = 11
    /\ Len(gResult[1].games) = 10

\* C12: with a non-empty dataset every query is answered with a non-empty list
\* of entries; with an empty dataset (none loaded) every query is answered with
\* an error.
C12_AlwaysSomeResult ==
    gPc = "done"
       => /\ gData # <<>> => gResult[1].kind = "games" /\ gResult[1].games # <<>>
          /\ gData = <<>> => gResult[1].kind = "error" /\ gResult[1].games = <<>>

C12_Witness ==
    /\ GameListed("none_found")
    /\ gQuery = <<"z", "z">>
    /\ Len(gData) = 3
    /\ Len(gResult[1].games) = 3

\* keyword K occurs, whatever the case, in the title, the description or a tag
EntryContains(game, K) ==
    \/ Contains(Lower(game.title), Lower(K))
    \/ Contains(Lower(game.description), Lower(K))
    \/ \E i \in 1..Len(game.tags) : Contains(Lower(game.tags[i]), Lower(K))

\* the number of distinct keywords that occur in the entry
DistinctScore(game, keywords) ==
    Cardinality({keywords[i] : i \in {j \in 1..Len(keywords) :
                                        EntryContains(game, keywords[j])}})

\* the keywords without their repetitions
Dedup(keywords) ==
    FilterIdx(keywords, {i \in 1..Len(keywords) :
                           \A j \in 1..(i - 1) : keywords[j] # keywords[i]}, 1)

\* C13 as claimed: on the keyword path entries are ranked by the number of
\* distinct keywords they contain, so the list is the one the query without
\* its repeated keywords gives, and no entry with score 0 is listed.
C13_RankedByDistinctKeywords ==
    GameListed("found")
       => /\ \A i \in 1..Len(gResult[1].games) :
                DistinctScore(gData[gResult[1].games[i]], gResult[1].keywords) > 0
          /\ \A i, j \in 1..Len(gResult[1].games) :
                i < j => DistinctScore(gData[gResult[1].games[i]], gResult[1].keywords)
                           >= DistinctScore(gData[gResult[1].games[j]], gResult[1].keywords)
          /\ gResult[1].games
                = TopResults(ScoredResults(gData, Dedup(gResult[1].keywords)))

\* the query is one word: no separator and no whitespace in it
SingleWord(query) == query # <<>> /\ \A i \in 1..Len(query) : query[i] \notin Separators

\* the positions of the entries that contain the query
Holders(query) == {i \in 1..Len(gData) : EntryContains(gData[i], query)}

\* C14 as claimed: when exactly one entry of the dataset contains keyword K,
\* the query K lists exactly that entry.
C14_SoleHolderReturned ==
    gPc = "done" /\ SingleWord(gQuery) /\ Cardinality(Holders(gQuery)) = 1
       => /\ gResult[1].kind = "games"
          /\ Len(gResult[1].games) = 1
          /\ gResult[1].games[1] \in Holders(gQuery)

\* C14 amended: when exactly one entry of the dataset contains, whatever the
\* case, keyword K, and K has at least 2 characters and is not one of the words
\* that ask for random ideas, the query K lists exactly that entry.
C14_SoleHolderOfUsableKeyword ==
    (/\ gPc = "done"
     /\ SingleWord(gQuery)
     /\ Len(gQuery) >= 2
     /\ Lower(gQuery) \notin RandomQueries
     /\ Cardinality(Holders(gQuery)) = 1)
       => /\ GameListed("found")
          /\ Len(gResult[1].games) = 1
          /\ gResult[1].games[1] \in Holders(gQuery)

C14_Witness ==
    /\ GameListed("found")
    /\ Len(gData) = 3
    /\ gQuery = <<"A", "b">>
    /\ Holders(gQuery) = {2}
    /\ gData[2].description = <<"a", "b">>
    /\ gResult[1].games = <<2>>

\* braces opened and not yet closed in text[i..k]
BraceDepth(text, i, k) ==
    Cardinality({ n \in i..k : text[n] = "{" }) - Cardinality({ n \in i..k : text[n] = "}" })

\* text[i..j] is delimited by braces and holds at most one level of nested braces
BraceDelimited(text, i, j) ==
    /\ text[i] = "{"
    /\ BraceDepth(text, i, j) = 0
    /\ \A k \in i..(j - 1) : BraceDepth(text, i, k) \in {1, 2}

\* the brace-delimited substrings a left-to-right scan meets: those that do
\* not lie inside another one
ScannedSubstrings(text) ==
    LET all == { m \in (1..Len(text)) \X (1..Len(text)) :
                    m[1] < m[2] /\ BraceDelimited(text, m[1], m[2]) }
    IN  { m \in all : ~ \E o \in all : o[1] < m[1] /\ m[2] < o[2] }

ParsedSubstrings(text) ==
    { m \in ScannedSubstrings(text) : JsonLoads(SubSeq(text, m[1], m[2])).ok }

\* C15: the recovery returns None for an empty or blank text; otherwise the
\* value of the whole text when the whole text parses; otherwise the value
\* of the first, in order of appearance, scanned brace-delimited substring
\* (at most one level of nesting) that parses; and None when none parses.
C15_WholeThenFirstSubstring ==
    xPc = "done"
       => IF xText = <<>> \/ SkipSpace(xText) = <<>> THEN xResult = PyNone
          ELSE IF JsonLoads(xText).ok THEN xResult = JsonLoads(xText).value
          ELSE IF ParsedSubstrings(xText) = {} THEN xResult = PyNone
          ELSE \E m \in ParsedSubstrings(xText) :
                  /\ \A n \in ParsedSubstrings(xText) : m[1] <= n[1]
                  /\ xResult = JsonLoads(SubSeq(xText, m[1], m[2])).value

\* the whole text does not parse, the first substring does not parse either,
\* and the second one is returned
C15_Witness ==
    /\ xPc = "done"
    /\ ~ JsonLoads(xText).ok
    /\ Cardinality(ScannedSubstrings(xText)) = 2
    /\ Cardinality(ParsedSubstrings(xText)) = 1
    /\ \E m \in ParsedSubstrings(xText) :
          /\ \E n \in ScannedSubstrings(xText) : n[1] < m[1]
          /\ xResult = JsonLoads(SubSeq(xText, m[1], m[2])).value
    /\ xResult.type = "dict"

\* C16 as claimed: when the text is a prefix without braces, a serialized
\* record R and a suffix without braces, the recovery returns exactly R; and
\* the value returned is always None or a record.
C16_RecordRecoveredExactly ==
    xPc = "done"
       => /\ xResult.type \in {"None", "dict"}
          /\ \A i \in 1..Len(xText), j \in 1..Len(xText) :
                (/\ i < j
                 /\ \A k \in (1..(i - 1)) \cup ((j + 1)..Len(xText)) :
                       xText[k] \notin {"{", "}"}
                 /\ JsonLoads(SubSeq(xText, i, j)).ok
                 /\ JsonLoads(SubSeq(xText, i, j)).value.type = "dict")
                   => xResult = JsonLoads(SubSeq(xText, i, j)).value

\* C17 as claimed: while a run that has a recorder is still inside its with
\* body, get_current_logger() is that run's recorder: not the recorder of
\* another run, and not None because another run has finished.
C17_CurrentLoggerIsOwn ==
    \A r \in RunIds : runs[r].pc = "body" /\ runs[r].has_logger => current = r

\* C18 as claimed: once finalize has been called, a call of log_agent_start,
\* log_agent_end, log_llm_call, log_tool_call, log_error or log_output leaves
\* run_data as it is, and the JSON file holds run_data as it finally is.
C18_FinalizedIsTerminal ==
    /\ [][rec.finalize_calls >= 1 /\ rec'.finalize_calls = rec.finalize_calls
             => rec'.run_data = rec.run_data]_vars
    /\ [](rec.finalize_calls >= 1 => rec.json_file = <<rec.run_data>>)

\* C19: _clean_text is idempotent: cleaning the text it returned returns that
\* same text.
C19_CleanTextIdempotent ==
    cPc = "done" => CleanText(cOut) = cOut

\* a text with a run of three spaces, a tab at the end of a line and an
\* empty line, which cleaning changes
C19_Witness ==
    /\ cPc = "done"
    /\ \E text \in { <<W(1), Sp, Sp, Sp, W(1)>>, <<W(1), Tab, Nl, Nl, W(1)>> } :
          cText = text
    /\ cOut # cText
    /\ cOut \in { <<W(1), Sp, W(1)>>, <<W(1), Nl, W(1)>> }

SectionTypes(report) ==
    [i \in 1..Len(report.sections) |-> report.sections[i].section_type]

\* C20 as claimed: a report is accepted only when it has exactly 3 sections
\* whose types are, in order, story, story_processing and game or activity.
C20_AcceptedOnlyInOrder ==
    pOutcome = "accepted"
       => /\ Len(pReport.sections) = 3
          /\ SectionTypes(pReport)[1] = "story"
          /\ SectionTypes(pReport)[2] = "story_processing"
          /\ SectionTypes(pReport)[3] \in {"game", "activity"}

\* C21 as claimed: an accepted report has no section of type
\* story_processing without a StoryProcessing block, and every block it
\* carries has at least 3 guiding questions.
C21_ProcessingSectionCarriesBlock ==
    pOutcome = "accepted"
       => \A i \in 1..Len(pReport.sections) :
             LET section == pReport.sections[i]
             IN  /\ section.section_type = "story_processing"
                       => section.story_processing # <<>>
                 /\ section.story_processing # <<>>
                       => Len(section.story_processing[1].guiding_questions) >= 3

\* C22 as claimed: a report whose central_message is empty or only
\* whitespace is not accepted.
C22_BlankMessageRejected ==
    pOutcome = "accepted"
       => /\ pReport.central_message # <<>>
          /\ \E i \in 1..Len(pReport.central_message) :
                pReport.central_message[i] \notin {" ", "\t"}

\* C24: a report that would be accepted with a total equal to the sum of its
\* section durations is accepted with any other total of at least 1 minute,
\* and the warning is logged exactly when an accepted report's total and sum
\* differ by more than 5 minutes.
C24_MismatchWarnsNeverRejects ==
    pOutcome # "none"
       => LET total == pReport.total_duration_minutes
              sum == SectionTotal(pReport.sections)
          IN  /\ (/\ ReportAccepted([pReport EXCEPT !.total_duration_minutes = sum])
                  /\ total >= 1)
                    => pOutcome = "accepted"
              /\ pWarned <=> (pOutcome = "accepted" /\ (total - sum > 5 \/ sum - total > 5))

\* 45 minutes in total, sections of 21, 21 and 10 minutes: accepted with a warning
C24_Witness ==
    /\ pOutcome = "accepted"
    /\ pReport.total_duration_minutes = 45
    /\ SectionTotal(pReport.sections) = 52
    /\ pWarned

\* the text has no character but spaces and tabs
Blank(text) == \A i \in 1..Len(text) : text[i] \in {" ", "\t"}

\* C23: a request whose values list is empty or holds only blank entries is
\* rejected; the values stored for an accepted request are at least one, and
\* each of them is non-empty with no whitespace at either end.
C23_ValuesNonEmptyAndTrimmed ==
    /\ (dOutcome # "none" /\ \A i \in 1..Len(dValues) : Blank(dValues[i]))
          => dOutcome = "ValidationError"
    /\ dOutcome = "accepted"
          => /\ Len(dStored) >= 1
             /\ \A i \in 1..Len(dStored) :
                   /\ dStored[i] # <<>>
                   /\ dStored[i][1] \notin {" ", "\t"}
                   /\ dStored[i][Len(dStored[i])] \notin {" ", "\t"}

\* a blank entry is dropped and an entry with whitespace around it is trimmed
C23_Witness ==
    /\ dOutcome = "accepted"
    /\ dValues = << <<" ", "v", "\t">>, <<" ">>, <<"v", " ", "w">> >>
    /\ dStored = << <<"v">>, <<"v", " ", "w">> >>

\* a tag: < and, after at least one character that is not >, a >
HasTag(s) ==
    \E i \in 1..Len(s), j \in 1..Len(s) :
        /\ j >= i + 2 /\ s[i] = Lt /\ s[j] = Gt
        /\ \A k \in (i + 1)..(j - 1) : s[k] # Gt

\* an entity: & and, after at least one character that is not ;, a ;
HasEntity(s) ==
    \E i \in 1..Len(s), j \in 1..Len(s) :
        /\ j >= i + 2 /\ s[i] = Amp /\ s[j] = Semi
        /\ \A k \in (i + 1)..(j - 1) : s[k] # Semi

\* C25 as claimed: the cleaned excerpt holds no tag and no entity and is at
\* most 500 characters long.
C25_ExcerptCleanAndWithinCap ==
    hPc = "done" => ~ HasTag(hOut) /\ ~ HasEntity(hOut) /\ TextLen(hOut) <= 500

\* C25 amended: the cleaned excerpt holds no tag and no entity and is at most
\* 503 characters long: an excerpt longer than 500 characters is its first
\* 500 characters followed by "...".
C25_ExcerptCleanAndCutWithDots ==
    hPc = "done"
       => /\ ~ HasTag(hOut) /\ ~ HasEntity(hOut)
          /\ TextLen(hOut) <= 503
          /\ TextLen(hOut) > 500
                => /\ TextLen(hOut) = 503
                   /\ hOut[Len(hOut)] = Dots
                   /\ \A i \in 1..(Len(hOut) - 1) : hOut[i] # Dots

\* two long words two spaces apart: cut after 500 characters, "..." added
C25_Witness ==
    /\ hPc = "done"
    /\ hRaw = <<W(499), Sp, Sp, W(499)>>
    /\ hOut = <<W(499), Sp, Dots>>

\* C26 as claimed: when an error event has been sent to the user, the
\* failure was recorded in the error log of the run's recorder before the
\* event was sent, and the message of the event does not hold the text of
\* the exception.
C26_ErrorLoggedThenGenericMessage ==
    \A r \in RunIds :
        \A i \in 1..Len(runs[r].events) :
            runs[r].events[i].event = "error"
               => /\ runs[r].has_logger
                     => /\ runs[r].events[i].errors_logged >= 1
                        /\ \E k \in 1..Len(runs[r].run_data.errors) :
                              runs[r].run_data.errors[k].exception = <<"boom">>
                  /\ \A k \in 1..Len(runs[r].events[i].message) :
                        runs[r].events[i].message[k] # "boom"

\* the waits of one call: the first is 1, each further one twice the one
\* before; each follows a failed request; as many as requests while another
\* attempt is still to come, one fewer once the call has left the retry loop
BackoffBetweenAttempts(net, sleeps, pc) ==
    /\ \A i \in 1..Len(sleeps) :
          /\ sleeps[i] = IF i = 1 THEN 1 ELSE 2 * sleeps[i - 1]
          /\ i <= Len(net) /\ net[i].outcome # "ok"
    /\ Len(sleeps) = IF pc = "attempt" THEN Len(net)
                     ELSE IF net = <<>> THEN 0
                     ELSE Len(net) - 1

\* C27: within one search and within one fetch the waits are 1, 2, ..., each
\* wait lies between a failed attempt and the next attempt, and no wait
\* follows the last attempt.
C27_BackoffOnlyBetweenAttempts ==
    /\ BackoffBetweenAttempts(sNet, sSleeps, sPc)
    /\ BackoffBetweenAttempts(fNet, fSleeps, fPc)

\* a search that failed three times: waits of 1 and 2, none after the third
C27_Witness ==
    /\ sPc = "done"
    /\ Len(sNet) = 3
    /\ \A i \in 1..3 : sNet[i].outcome # "ok"
    /\ sSleeps = <<1, 2>>

\* C28 as claimed, the score being the number of distinct keywords the entry
\* contains: the entries listed are in descending score order, entries of
\* equal score are in dataset order, at most 10 are listed, and no entry left
\* out has a positive score while fewer than 10 are listed or a higher score
\* than an entry listed.
C28_DescendingStableTopTen ==
    GameListed("found")
       => LET games == gResult[1].games
              score(i) == DistinctScore(gData[i], gResult[1].keywords)
              listed == { games[i] : i \in 1..Len(games) }
              left == { e \in 1..Len(gData) : e \notin listed /\ score(e) > 0 }
          IN  /\ \A i, j \in 1..Len(games) :
                    i < j => /\ score(games[i]) >= score(games[j])
                             /\ score(games[i]) = score(games[j]) => games[i] < games[j]
              /\ Len(games) <= 10
              /\ Len(games) < 10 => left = {}
              /\ \A e \in left : \A r \in listed : score(e) <= score(r)

\* the selectors of the document received whose text is longer than the minimum
LongSelectors ==
    { i \in ContentSelectors :
        fResponse[1].sel[i].present
        /\ TextLen(fResponse[1].sel[i].text) > SelectorMinLength }

\* the document received with nothing but what selector i matches
OnlySelector(i) ==
    [fResponse[1] EXCEPT
        !.sel = [j \in ContentSelectors |-> IF j = i THEN @[j] ELSE Absent],
        !.body = Absent]

\* the document received with nothing but its body
OnlyBody == [fResponse[1] EXCEPT !.sel = [j \in ContentSelectors |-> Absent]]

\* C29 as claimed: fetch works on the text of the first selector, in list
\* order, whose text is longer than 100 characters; when no selector's text is
\* longer than that, a text of exactly 100 characters included, it works on the
\* text of the document body.
C29_FirstLongSelectorElseBody ==
    FetchProcessed =>
       /\ LongSelectors # {}
            => \E i \in LongSelectors :
                  /\ \A j \in LongSelectors : i <= j
                  /\ fResult[1] = ProcessResponse(fUrl, OnlySelector(i))
       /\ (LongSelectors = {} /\ fResponse[1].body.present)
            => fResult[1] = ProcessResponse(fUrl, OnlyBody)

\* C29, the part the code keeps: the first selector with more than 100
\* characters is used, and the body is used when every selector that matches
\* gives fewer than 100 characters.
C29_FirstLongSelectorElseBodyBelowMinimum ==
    FetchProcessed =>
       /\ LongSelectors # {}
            => \E i \in LongSelectors :
                  /\ \A j \in LongSelectors : i <= j
                  /\ fResult[1] = ProcessResponse(fUrl, OnlySelector(i))
       /\ ( /\ fResponse[1].body.present
            /\ \A i \in ContentSelectors :
                  fResponse[1].sel[i].present
                     => TextLen(fResponse[1].sel[i].text) < FallbackMinLength )
            => fResult[1] = ProcessResponse(fUrl, OnlyBody)

\* the sum of one token count over the stages of a run
RECURSIVE StageTokens(_, _)
StageTokens(agents, kind) ==
    IF agents = <<>> THEN 0
    ELSE agents[1].tokens[kind] + StageTokens(Tail(agents), kind)

\* a step that is a stage end, an LLM call or a tool call for an index at
\* which no stage was started
UnstartedStageCall ==
    \E i \in AgentIndexes :
       /\ i >= Len(rec.run_data.agents)
       /\ \/ RecorderLogAgentEnd(i, "out")
          \/ \E model \in {"m1", "m2"} : RecorderLogLlmCall(i, model, 1, 2)
          \/ \E n \in ResultLengths : RecorderLogToolCall(i, "tool", n)

\* C30: on one recorder the run's input and output token counts are the sums
\* of the stages' counts, the run's total is input plus output, no model is
\* listed twice, and a stage end, an LLM call or a tool call for an index at
\* which no stage was started leaves the recorded run as it was.
C30_TotalsAreStageSums ==
    /\ [](LET run == rec.run_data
          IN  /\ run.total_tokens.input = StageTokens(run.agents, "input")
              /\ run.total_tokens.output = StageTokens(run.agents, "output")
              /\ run.total_tokens.total =
                    run.total_tokens.input + run.total_tokens.output
              /\ \A i, j \in 1..Len(run.models_used) :
                    i # j => run.models_used[i] # run.models_used[j])
    /\ [][UnstartedStageCall => rec'.run_data = rec.run_data]_vars

\* two stages that each made an LLM call, with two models, and one further
\* call that changed nothing
C30_Witness ==
    LET run == rec.run_data
    IN  /\ Len(run.agents) = 2
        /\ \A i \in 1..2 : run.agents[i].tokens.input > 0
        /\ \A i \in 1..2 : run.agents[i].tool_calls = <<>>
        /\ \A i \in 1..2 : run.agents[i].end_time = <<>>
        /\ run.total_tokens.total = 6
        /\ Len(run.models_used) = 2
        /\ run.errors = <<>>
        /\ run.final_output = <<>>
        /\ rec.finalize_calls = 0
        /\ rec.calls = 5

====
